---- MODULE Spec2Model ----
(***************************************************************************)
(* State-machine model of the transport dispatch and file-rotation         *)
(* subsystem of common-lib: BaseTransport (buffering, flush timer, close), *)
(* FileTransport (initialize, write, writeMany, checkRotation, rotate,     *)
(* deleteOldFiles) and the fire-and-forget dispatch of CommonLogger.log.   *)
(*                                                                         *)
(* Execution is single-threaded and cooperative: every action below is one *)
(* non-suspending region of one asynchronous call, from the completion of  *)
(* the filesystem call it was awaiting up to the next await.  A call runs  *)
(* in a slot; a slot that has returned can be used by a later call.        *)
(***************************************************************************)
EXTENDS Integers, Sequences, FiniteSets, TLC

\* ---------------------------------------------------------------- bounds
MaxSlots == 2        \* calls that may be in flight at the same time
MaxEntries == 3      \* entries accepted in one behaviour (concurrent runs)
SeqEntries == 5      \* entries accepted in one behaviour (sequential runs)
MaxFiles == 2        \* largest rotation.maxFiles (concurrent runs)
SeqFiles == 4        \* largest rotation.maxFiles (sequential runs)
MaxClock == 2        \* days the clock may advance
MaxFaults == 1       \* filesystem calls the environment may fail
MaxLoggers == 3      \* logger objects made in one behaviour
MaxRotations == 2    \* rotations of the directory by name

\* Largest generation index the directory can hold in the model.
MaxIndex == SeqFiles + 1

Slots == 1 .. MaxSlots

VARIABLES
    rotation,         \* FileTransport.rotation: [maxSize, maxDays, maxFiles]
    buffering,        \* BaseTransport.buffering
    bufferSize,       \* BaseTransport.bufferSize
    limits,           \* [slots, entries, clock]: the run's bounds
    faults,           \* filesystem failures the environment may still inject
    now,              \* the clock, in days
    dir,              \* the log directory: index 0 is the active file
                      \* (filename), index k >= 1 is basename.k.extension
    initialized,      \* BaseTransport.initialized
    rotating,         \* FileTransport.rotating
    buffer,           \* BaseTransport.buffer
    flushIntervalId,  \* TRUE iff the periodic flush timer is set
    nextId,           \* identity of the next accepted entry
    pc,               \* per slot: the await the call is suspended at
    local,            \* per slot: the call's local variables
    settled,          \* the call that returned last, and its promise,
                      \* until a call next goes to the file system
    completed,        \* entries whose destination write has completed
    diag,             \* kinds of message reported with console.error
    rotations,        \* number of times the active file was renamed to .1
    lastRot,          \* bookkeeping of the latest rotate()
    level,            \* BaseTransport.level, the transport's minimum level
    minLevel,         \* CommonLogger.minLevel
    created,          \* number of times mkdir created the log directory
    timers,           \* number of setInterval calls made so far
    useErrorConsole,  \* ConsoleTransport.useErrorConsole
    stdout,           \* the lines written with console.log
    stderr,           \* the lines written with console.error by a transport
    loggers,          \* the CommonLogger objects, in order of construction
    transports,       \* CommonLogger.transports, and what each was called with
    logged,           \* the latest log() call and the entry it created
    returned,         \* the latest getLogger() or close() call on a logger
    options,          \* JsonFormatter.options
    entry,            \* the LogEntry handed to the formatter
    formatted,        \* the string the formatter returned
    folder,           \* the log directory by file name
    work              \* the rotation at work on the directory by name

vars == << rotation, buffering, bufferSize, limits, faults, now, dir,
           initialized, rotating, buffer, flushIntervalId, nextId, pc, local,
           settled, completed, diag, rotations, lastRot, level, minLevel,
           created, timers, useErrorConsole, stdout, stderr, loggers,
           transports, logged, returned, options, entry, formatted, folder,
           work >>

\* The console transport's own field and the two console streams.
console == << useErrorConsole, stdout, stderr >>

\* The logger objects and the transports they dispatch to.
registry == << loggers, transports, logged, returned >>

\* A formatter at work.
formatting == << options, entry, formatted >>

\* The directory as the file names in it, and the rotation at work on it.
naming == << folder, work >>

\* The variables of the logger facade and of the initialization, which the
\* steps of write() and rotate() leave alone.
facade == << level, minLevel, created, timers, console, registry,
            formatting, naming >>

\* ------------------------------------------------------------ filesystem
NoFile == [exists |-> FALSE, content |-> << >>, mtime |-> 0, stamp |-> 0]

\* A formatted entry followed by os.EOL is one line; sizes count lines.
Size(f) == Len(f.content)

NoStats == [exists |-> FALSE, size |-> 0, mtime |-> 0]

\* fsPromises.stat(path).catch(() => null)
stat(d, path, ok) ==
    IF ok /\ d[path].exists
    THEN [exists |-> TRUE, size |-> Size(d[path]), mtime |-> d[path].mtime]
    ELSE NoStats

\* Variant: the file is copied to newPath and oldPath is left in place.
rename_copy(d, oldPath, newPath) == [d EXCEPT ![newPath] = d[oldPath]]

\* fsPromises.rename(oldPath, newPath): replaces an existing newPath
rename(d, oldPath, newPath) ==
    [d EXCEPT ![newPath] = d[oldPath], ![oldPath] = NoFile]

\* fsPromises.unlink(path)
unlink(d, path) == [d EXCEPT ![path] = NoFile]

\* fsPromises.appendFile(path, data): creates the file when it is missing
appendFile(d, path, data, time) ==
    [d EXCEPT ![path] = [exists |-> TRUE,
                         content |-> d[path].content \o data,
                         mtime |-> time,
                         stamp |-> d[path].stamp]]

\* Outcomes of one filesystem call: it may fail while the budget lasts.
Outcomes == IF faults > 0 THEN {TRUE, FALSE} ELSE {TRUE}

Spend(ok) == faults' = IF ok THEN faults ELSE faults - 1

\* ------------------------------------------------- names of rotated files
RECURSIVE Digits(_)
Digits(n) == IF n < 10 THEN << n >> ELSE Append(Digits(n \div 10), n % 10)

\* Order of two file names basename.<a>.ext and basename.<b>.ext under the
\* default Array.prototype.sort (code-unit order); the extension is empty
\* or starts with ".", which sorts before every digit.
RECURSIVE StrLess(_, _)
StrLess(s, t) ==
    IF s = << >> THEN t # << >>
    ELSE IF t = << >> THEN FALSE
    ELSE IF Head(s) # Head(t) THEN Head(s) < Head(t)
    ELSE StrLess(Tail(s), Tail(t))

\* files.sort().reverse()
RECURSIVE SortReverse(_)
SortReverse(S) ==
    IF S = {} THEN << >>
    ELSE LET m == CHOOSE x \in S : \A y \in S \ {x} :
                            StrLess(Digits(y), Digits(x))
         IN  << m >> \o SortReverse(S \ {m})

\* getExistingRotatedFiles(): the indices k with basename.k.extension present
getExistingRotatedFiles(d, ok) ==
    IF ok THEN {k \in 1 .. MaxIndex : d[k].exists} ELSE {}

\* ----------------------------------------------------------------- levels
\* The `levels` array of isLevelEnabled(), most severe first.
levels == << "error", "warn", "info", "debug", "trace" >>

LogLevel == {levels[k] : k \in 1 .. Len(levels)}

\* Array.prototype.indexOf, zero-based, -1 when x is not in the array.
indexOf(arr, x) ==
    IF \E k \in 1 .. Len(arr) : arr[k] = x
    THEN (CHOOSE k \in 1 .. Len(arr) :
             arr[k] = x /\ \A j \in 1 .. (k - 1) : arr[j] # x) - 1
    ELSE -1

\* Variant: the comparison is turned around.
isLevelEnabled_reversed(lv) == indexOf(levels, lv) >= indexOf(levels, level)

\* BaseTransport.isLevelEnabled(level)
isLevelEnabled(lv) == indexOf(levels, lv) <= indexOf(levels, level)

\* Variant: the logger lets every level through.
CommonLogger_isLevelEnabled_all(lv) == TRUE

\* CommonLogger.isLevelEnabled(level)
CommonLogger_isLevelEnabled(lv) ==
    indexOf(levels, lv) <= indexOf(levels, minLevel)

\* Variant: log() calls every transport.
dispatches_always(lv) == TRUE

\* log, line 124: if (transport.isLevelEnabled(level))
dispatches(lv) == isLevelEnabled(lv)

\* ------------------------------------------------------------ code guards
\* Variant: a file of exactly maxSize is not yet rotated.
needsRotation_strict(st) == st.exists /\ st.size > rotation.maxSize

\* checkRotation, line 177: stats && stats.size >= this.rotation.maxSize
needsRotation(st) == st.exists /\ st.size >= rotation.maxSize

\* Variant: off by one, a generation may reach index maxFiles + 1.
exceedsMaxFiles_late(newIndex) == newIndex > rotation.maxFiles + 1

\* rotate, line 219: newIndex > this.rotation.maxFiles
exceedsMaxFiles(newIndex) == newIndex > rotation.maxFiles

\* Variant: rotate() without its guard.
rotateGuard_none(flag) == FALSE

\* rotate, line 189: if (this.rotating) return
rotateGuard(flag) == flag

\* Variant: BaseTransport.initialize() without its guard.
isInitialized_never(flag) == FALSE

\* BaseTransport.initialize, line 62: if (this.initialized) return
isInitialized(flag) == flag

\* Variant: every mkdir error is ignored.
isFatal_never(code) == FALSE

\* FileTransport.initialize, line 108: an error other than EEXIST is thrown
isFatal(code) == code # "EEXIST"

\* Variant: the flush starts only above the threshold.
reachesThreshold_above(n) == n > bufferSize

\* transport, line 90: this.buffer.length >= this.bufferSize
reachesThreshold(n) == n >= bufferSize

\* Variant: rotate() goes on without a file to rotate.
noFile_never(st) == FALSE

\* rotate, line 198: if (!stats)
noFile(st) == ~st.exists

\* deleteOldFiles, line 275: stats && now - stats.mtime.getTime() > maxAgeMs
isTooOld(st, time) == st.exists /\ time - st.mtime > rotation.maxDays

\* ------------------------------------------------------------ call frames
NoLocal == [call |-> "none", log |-> "none", entries |-> << >>,
            stats |-> NoStats, files |-> << >>, i |-> 0, prune |-> {},
            cur |-> 0, snap |-> {}, level |-> "none", err |-> "none"]

\* A new call in a slot.
Frame(name) == [NoLocal EXCEPT !.call = name]

NoCall == [call |-> "none", result |-> "none", log |-> "none",
           appendFailed |-> FALSE, snap |-> {}, level |-> "none",
           err |-> "none", entry |-> FALSE]

NoRot == [state |-> "none", start |-> [k \in 0 .. MaxIndex |-> NoFile],
          end |-> [k \in 0 .. MaxIndex |-> NoFile],
          failed |-> FALSE, missing |-> FALSE, shiftFailed |-> FALSE,
          failedAt |-> 0, renamed |-> FALSE, pruned |-> FALSE]

\* rotate() returns, leaving the directory d.
Finished(r, d) == [r EXCEPT !.state = "done", !.end = d]

Running == 1 .. limits.slots

\* A new call takes the first free slot (slots are interchangeable).
Free(t) == pc[t] = "idle" /\ \A u \in 1 .. (t - 1) : pc[u] # "idle"

\* ---------------------------------------------------------- BaseTransport
\* The call of slot t returns and its promise settles with res; `settled`
\* is what is known of the call, whose frame is l.
return(t, l, res, failed) ==
    /\ local' = [local EXCEPT ![t] = NoLocal]
    /\ pc' = [pc EXCEPT ![t] = "idle"]
    /\ settled' = [call |-> l.call, result |-> res, log |-> l.log,
                   appendFailed |-> failed, snap |-> l.snap,
                   level |-> l.level, err |-> l.err, entry |-> FALSE]

\* write(entry) / writeMany(entries) up to the first filesystem call:
\* ensureInitialized() finds the transport initialized, checkRotation()
\* returns at once while a rotation is in progress and stats the file
\* otherwise.
beginWrite(t, l, batch) ==
    /\ local' = [local EXCEPT ![t] = [l EXCEPT !.entries = batch]]
    /\ pc' = [pc EXCEPT ![t] = IF rotating THEN "append" ELSE "cr_stat"]
    /\ settled' = NoCall

\* Variant: flushBuffer() does not clear the buffer.
taken_kept(buf) == buf

\* flushBuffer, line 159: this.buffer = []
taken(buf) == << >>

\* flushBuffer(): nothing to do on an empty buffer, else the buffer is taken
\* and handed to writeMany.
flushBuffer(t, l, buf) ==
    IF buf = << >>
    THEN /\ return(t, l, "resolved", FALSE)
         /\ buffer' = buf
    ELSE /\ buffer' = taken(buf)
         /\ beginWrite(t, l, buf)

\* transport(entry) after the initialization: the entry is accepted and
\* either buffered (and flushed at the threshold) or written.
accept(t, l) ==
    /\ nextId' = nextId + 1
    /\ IF buffering
       THEN LET buf == Append(buffer, nextId)
            IN  IF reachesThreshold(Len(buf))
                THEN flushBuffer(t, l, buf)
                ELSE /\ buffer' = buf
                     /\ return(t, l, "resolved", FALSE)
       ELSE /\ buffer' = buffer
            /\ beginWrite(t, l, << nextId >>)

\* transport(entry) after the initialization: an entry below the
\* transport's level is dropped, any other is accepted.
deliver(t, l) ==
    IF isLevelEnabled(l.level)
    THEN accept(t, l)
    ELSE /\ return(t, l, "resolved", FALSE)
         /\ UNCHANGED << buffer, nextId >>

\* A call with frame l starts: transport() and initialize() go to mkdir
\* when the transport is not initialized.
begin(t, l) ==
    IF initialized
    THEN IF l.call = "initialize"
         THEN /\ return(t, l, "resolved", FALSE)
              /\ UNCHANGED << buffer, nextId >>
         ELSE deliver(t, l)
    ELSE /\ pc' = [pc EXCEPT ![t] = "mkdir"]
         /\ local' = [local EXCEPT ![t] = l]
         /\ settled' = NoCall
         /\ UNCHANGED << buffer, nextId >>

\* CommonLogger.log(level, ...): below the logger's minimum level nothing
\* happens; otherwise the entry is created and transport(entry) is launched,
\* without being awaited, when the transport's level is enabled; log() then
\* resolves.
log(t) ==
    /\ Free(t)
    /\ \E lv \in limits.levels :
          LET Logged(made) ==
                 [NoCall EXCEPT !.call = "log", !.result = "resolved",
                                !.log = "resolved", !.level = lv,
                                !.entry = made]
          IN
          IF ~CommonLogger_isLevelEnabled(lv)
          THEN /\ settled' = Logged(FALSE)
               /\ UNCHANGED << buffer, nextId, pc, local >>
          ELSE IF ~dispatches(lv)
          THEN /\ settled' = Logged(TRUE)
               /\ UNCHANGED << buffer, nextId, pc, local >>
          ELSE /\ nextId <= limits.entries
               /\ begin(t, [Frame("transport") EXCEPT !.log = "resolved",
                                                      !.level = lv])
    /\ UNCHANGED << rotation, buffering, bufferSize, limits, faults, now, dir,
                    initialized, rotating, flushIntervalId, completed, diag,
                    rotations, lastRot >>
    /\ UNCHANGED facade

\* transport.transport(entry) called directly.
transport_entry(t) ==
    /\ Free(t)
    /\ \E lv \in limits.levels :
          /\ isLevelEnabled(lv) => nextId <= limits.entries
          /\ begin(t, [Frame("transport") EXCEPT !.level = lv])
    /\ UNCHANGED << rotation, buffering, bufferSize, limits, faults, now, dir,
                    initialized, rotating, flushIntervalId, completed, diag,
                    rotations, lastRot >>
    /\ UNCHANGED facade

\* transport.initialize() called directly.
initialize_call(t) ==
    /\ Free(t)
    /\ begin(t, Frame("initialize"))
    /\ UNCHANGED << rotation, buffering, bufferSize, limits, faults, now, dir,
                    initialized, rotating, flushIntervalId, completed, diag,
                    rotations, lastRot >>
    /\ UNCHANGED facade

\* FileTransport.initialize() when fsPromises.mkdir settles, followed by
\* BaseTransport.initialize(), which starts the flush timer. mkdir with
\* `recursive` succeeds on an existing directory; an EEXIST failure is
\* ignored, any other failure is thrown again and rejects the call.
initialize(t) ==
    /\ pc[t] = "mkdir"
    /\ \E code \in {"ok"} \cup
                    (IF faults > 0 THEN {"EEXIST", "EACCES"} ELSE {}) :
          LET l == [local[t] EXCEPT
                       !.err = IF code = "ok" THEN "none" ELSE code]
          IN  /\ faults' = IF code = "ok" THEN faults ELSE faults - 1
              /\ IF code # "ok" /\ isFatal(code)
                 THEN /\ return(t, l, "rejected", FALSE)
                      /\ UNCHANGED << initialized, flushIntervalId, created,
                                      timers >>
                 ELSE /\ created' = IF code = "ok" /\ created = 0 THEN 1
                                    ELSE created
                      /\ IF isInitialized(initialized)
                         THEN UNCHANGED << initialized, flushIntervalId,
                                           timers >>
                         ELSE /\ initialized' = TRUE
                              /\ flushIntervalId' =
                                    (buffering \/ flushIntervalId)
                              /\ timers' = IF buffering THEN timers + 1
                                           ELSE timers
                      /\ IF l.call = "initialize"
                         THEN return(t, l, "resolved", FALSE)
                         ELSE /\ pc' = [pc EXCEPT ![t] = "accept"]
                              /\ local' = [local EXCEPT ![t] = l]
                              /\ UNCHANGED settled
    /\ UNCHANGED << rotation, buffering, bufferSize, limits, now, dir,
                    rotating, buffer, nextId, completed, diag, rotations,
                    lastRot, level, minLevel >>
    /\ UNCHANGED << console, registry, formatting, naming >>

\* transport(entry) resumes after `await this.initialize()`.
transport(t) ==
    /\ pc[t] = "accept"
    /\ deliver(t, local[t])
    /\ UNCHANGED facade
    /\ UNCHANGED << rotation, buffering, bufferSize, limits, faults, now, dir,
                    initialized, rotating, flushIntervalId, completed, diag,
                    rotations, lastRot >>

\* The setInterval callback of startBufferFlushTimer().
flushTimer(t) ==
    /\ Free(t)
    /\ flushIntervalId
    /\ flushBuffer(t, Frame("timer"), buffer)
    /\ UNCHANGED facade
    /\ UNCHANGED << rotation, buffering, bufferSize, limits, faults, now, dir,
                    initialized, rotating, flushIntervalId, nextId, completed,
                    diag, rotations, lastRot >>

\* close(): clears the timer and flushes what is in the buffer.
close(t) ==
    /\ Free(t)
    /\ flushIntervalId' = FALSE
    /\ LET l == [Frame("close") EXCEPT !.snap = 1 .. (nextId - 1)]
       IN  IF buffering /\ Len(buffer) > 0
           THEN flushBuffer(t, l, buffer)
           ELSE /\ return(t, l, "resolved", FALSE)
                /\ buffer' = buffer
    /\ UNCHANGED facade
    /\ UNCHANGED << rotation, buffering, bufferSize, limits, faults, now, dir,
                    initialized, rotating, nextId, completed, diag, rotations,
                    lastRot >>

\* ---------------------------------------------------------- FileTransport
\* Variant: what ends rotate() also ends the write, which appends nothing.
leaveRotate_skip(t) ==
    /\ rotating' = FALSE
    /\ pc' = [pc EXCEPT ![t] = "idle"]

\* Variant: rotate() returns without resetting the flag.
leaveRotate_flagged(t) ==
    /\ rotating' = rotating
    /\ pc' = [pc EXCEPT ![t] = "append"]

\* rotate() leaves through its finally block, and write()/writeMany() go on
\* to appendFile.
leaveRotate(t) ==
    /\ rotating' = FALSE
    /\ pc' = [pc EXCEPT ![t] = "append"]

\* checkRotation(): fsPromises.stat(this.filename) settles.
checkRotation_stat(t) ==
    /\ pc[t] = "cr_stat"
    /\ \E ok \in Outcomes :
          /\ Spend(ok)
          /\ local' = [local EXCEPT ![t].stats = stat(dir, 0, ok)]
    /\ pc' = [pc EXCEPT ![t] = "cr_then"]
    /\ UNCHANGED facade
    /\ UNCHANGED << settled, rotation, buffering, bufferSize, limits, now,
                    dir, initialized, rotating, buffer, flushIntervalId,
                    nextId, completed, diag, rotations, lastRot >>

\* checkRotation() resumes with the stats; a full file calls rotate(), which
\* returns at once when a rotation is in progress and otherwise sets the
\* flag and stats the file again.
checkRotation(t) ==
    /\ pc[t] = "cr_then"
    /\ IF needsRotation(local[t].stats) /\ ~rotateGuard(rotating)
       THEN /\ rotating' = TRUE
            /\ pc' = [pc EXCEPT ![t] = "rot_stat"]
            /\ lastRot' = [NoRot EXCEPT !.state = "running"]
       ELSE /\ pc' = [pc EXCEPT ![t] = "append"]
            /\ UNCHANGED << rotating, lastRot >>
    /\ UNCHANGED facade
    /\ UNCHANGED << settled, rotation, buffering, bufferSize, limits, faults,
                    now, dir, initialized, buffer, flushIntervalId, nextId,
                    local, completed, diag, rotations >>

\* rotate(): the second fsPromises.stat(this.filename) settles.
rotate_stat(t) ==
    /\ pc[t] = "rot_stat"
    /\ \E ok \in Outcomes :
          /\ Spend(ok)
          /\ local' = [local EXCEPT ![t].stats = stat(dir, 0, ok)]
          /\ lastRot' = [lastRot EXCEPT !.failed = @ \/ ~ok]
    /\ pc' = [pc EXCEPT ![t] = "rot_then"]
    /\ UNCHANGED facade
    /\ UNCHANGED << settled, rotation, buffering, bufferSize, limits, now,
                    dir, initialized, rotating, buffer, flushIntervalId,
                    nextId, completed, diag, rotations >>

\* rotate() resumes: without a file to rotate it resets the flag and
\* returns, otherwise it lists the directory.
rotate(t) ==
    /\ pc[t] = "rot_then"
    /\ IF noFile(local[t].stats)
       THEN /\ leaveRotate(t)
            /\ lastRot' = [lastRot EXCEPT !.state = "aborted"]
       ELSE /\ pc' = [pc EXCEPT ![t] = "readdir"]
            /\ UNCHANGED << rotating, lastRot >>
    /\ UNCHANGED facade
    /\ UNCHANGED << settled, rotation, buffering, bufferSize, limits, faults,
                    now, dir, initialized, buffer, flushIntervalId, nextId,
                    local, completed, diag, rotations >>

\* rotate(): getExistingRotatedFiles() settles (a failed readdir is reported
\* and gives no file), the list is sorted and reversed, and the loop starts
\* at its last element.
rotate_readdir(t) ==
    /\ pc[t] = "readdir"
    /\ \E ok \in Outcomes :
          LET files == SortReverse(getExistingRotatedFiles(dir, ok))
          IN  /\ Spend(ok)
              /\ diag' = IF ok THEN diag ELSE diag \cup {"readdir"}
              /\ local' = [local EXCEPT ![t].files = files,
                                        ![t].i = Len(files)]
              /\ lastRot' = [lastRot EXCEPT !.start = dir,
                                            !.failed = @ \/ ~ok]
              /\ pc' = [pc EXCEPT ![t] = IF Len(files) >= 1 THEN "shift"
                                         ELSE "ren_active"]
    /\ UNCHANGED facade
    /\ UNCHANGED << settled, rotation, buffering, bufferSize, limits, now,
                    dir, initialized, rotating, buffer, flushIntervalId,
                    nextId, completed, rotations >>

\* rotate(): the unlink or rename of files[i] settles. A failure leaves the
\* loop through the catch block of rotate().
rotate_shift(t) ==
    /\ pc[t] = "shift"
    /\ LET index == local[t].files[local[t].i]
           newIndex == index + 1
       IN  \E ok \in Outcomes :
              /\ Spend(ok)
              /\ IF ok /\ dir[index].exists
                 THEN /\ dir' = IF exceedsMaxFiles(newIndex)
                                THEN unlink(dir, index)
                                ELSE rename(dir, index, newIndex)
                      /\ local' = [local EXCEPT ![t].i = @ - 1]
                      /\ pc' = [pc EXCEPT ![t] =
                                   IF local[t].i - 1 >= 1 THEN "shift"
                                   ELSE "ren_active"]
                      /\ UNCHANGED << rotating, diag, lastRot >>
                 ELSE /\ diag' = diag \cup {"rotate"}
                      /\ lastRot' = [Finished(lastRot, dir) EXCEPT
                                        !.failed = TRUE,
                                        !.missing = @ \/ ok,
                                        !.shiftFailed = TRUE,
                                        !.failedAt = index]
                      /\ leaveRotate(t)
                      /\ UNCHANGED << dir, local >>
    /\ UNCHANGED facade
    /\ UNCHANGED << settled, rotation, buffering, bufferSize, limits, now,
                    initialized, buffer, flushIntervalId, nextId, completed,
                    rotations >>

\* rotate(): the rename of the active file to index 1 settles; with
\* maxDays > 0 deleteOldFiles() follows.
rotate_active(t) ==
    /\ pc[t] = "ren_active"
    /\ \E ok \in Outcomes :
          /\ Spend(ok)
          /\ IF ok /\ dir[0].exists
             THEN LET d == [rename(dir, 0, 1) EXCEPT
                               ![1].stamp = rotations + 1]
                  IN  /\ dir' = d
                      /\ rotations' = rotations + 1
                      /\ IF rotation.maxDays > 0
                         THEN /\ pc' = [pc EXCEPT ![t] = "p_readdir"]
                              /\ lastRot' = [lastRot EXCEPT !.renamed = TRUE,
                                                            !.end = d]
                              /\ UNCHANGED rotating
                         ELSE /\ leaveRotate(t)
                              /\ lastRot' = [Finished(lastRot, d) EXCEPT
                                                !.renamed = TRUE]
                      /\ UNCHANGED diag
             ELSE /\ diag' = diag \cup {"rotate"}
                  /\ lastRot' = [Finished(lastRot, dir) EXCEPT
                                    !.failed = TRUE, !.missing = @ \/ ok]
                  /\ leaveRotate(t)
                  /\ UNCHANGED << dir, rotations >>
    /\ UNCHANGED facade
    /\ UNCHANGED << settled, rotation, buffering, bufferSize, limits, now,
                    initialized, buffer, flushIntervalId, nextId, local,
                    completed >>

\* deleteOldFiles(): getExistingRotatedFiles() settles.
deleteOldFiles_readdir(t) ==
    /\ pc[t] = "p_readdir"
    /\ \E ok \in Outcomes :
          LET files == getExistingRotatedFiles(dir, ok)
          IN  /\ Spend(ok)
              /\ diag' = IF ok THEN diag ELSE diag \cup {"readdir"}
              /\ local' = [local EXCEPT ![t].prune = files]
              /\ IF files = {}
                 THEN /\ leaveRotate(t)
                      /\ lastRot' = [Finished(lastRot, dir) EXCEPT
                                        !.pruned = TRUE, !.failed = @ \/ ~ok]
                 ELSE /\ pc' = [pc EXCEPT ![t] = "p_stat"]
                      /\ lastRot' = [lastRot EXCEPT !.pruned = TRUE,
                                                    !.failed = @ \/ ~ok]
                      /\ UNCHANGED rotating
    /\ UNCHANGED facade
    /\ UNCHANGED << settled, rotation, buffering, bufferSize, limits, now,
                    dir, initialized, buffer, flushIntervalId, nextId,
                    completed, rotations >>

\* deleteOldFiles(): the stat of the next listed file settles (readdir gives
\* the files in no particular order); a file that is too old is unlinked.
deleteOldFiles_stat(t) ==
    /\ pc[t] = "p_stat"
    /\ \E file \in local[t].prune, ok \in Outcomes :
          /\ Spend(ok)
          /\ IF isTooOld(stat(dir, file, ok), now)
             THEN /\ local' = [local EXCEPT ![t].cur = file]
                  /\ pc' = [pc EXCEPT ![t] = "p_unlink"]
                  /\ lastRot' = [lastRot EXCEPT !.failed = @ \/ ~ok]
                  /\ UNCHANGED rotating
             ELSE /\ local' = [local EXCEPT ![t].prune = @ \ {file}]
                  /\ IF local[t].prune = {file}
                     THEN /\ leaveRotate(t)
                          /\ lastRot' = [Finished(lastRot, dir) EXCEPT
                                            !.failed = @ \/ ~ok]
                     ELSE /\ lastRot' = [lastRot EXCEPT !.failed = @ \/ ~ok]
                          /\ UNCHANGED << pc, rotating >>
    /\ UNCHANGED facade
    /\ UNCHANGED << settled, rotation, buffering, bufferSize, limits, now,
                    dir, initialized, buffer, flushIntervalId, nextId,
                    completed, diag, rotations >>

\* deleteOldFiles(): the unlink of an old file settles; a failure ends
\* deleteOldFiles() through its catch block.
deleteOldFiles_unlink(t) ==
    /\ pc[t] = "p_unlink"
    /\ LET file == local[t].cur
       IN  \E ok \in Outcomes :
              /\ Spend(ok)
              /\ IF ok /\ dir[file].exists
                 THEN /\ dir' = unlink(dir, file)
                      /\ local' = [local EXCEPT ![t].prune = @ \ {file},
                                                ![t].cur = 0]
                      /\ IF local[t].prune = {file}
                         THEN /\ leaveRotate(t)
                              /\ lastRot' = Finished(lastRot,
                                                     unlink(dir, file))
                         ELSE /\ pc' = [pc EXCEPT ![t] = "p_stat"]
                              /\ UNCHANGED << rotating, lastRot >>
                      /\ UNCHANGED diag
                 ELSE /\ diag' = diag \cup {"prune"}
                      /\ lastRot' = [Finished(lastRot, dir) EXCEPT
                                        !.failed = TRUE,
                                        !.missing = @ \/ ok]
                      /\ leaveRotate(t)
                      /\ local' = [local EXCEPT ![t].prune = {},
                                                ![t].cur = 0]
                      /\ UNCHANGED dir
    /\ UNCHANGED facade
    /\ UNCHANGED << settled, rotation, buffering, bufferSize, limits, now,
                    initialized, buffer, flushIntervalId, nextId, completed,
                    rotations >>

\* os.EOL; the entries are numbered from 1.
EOL == 0

\* this.formatter.format(entry): the text of the entry, without line
\* separator.
format(e) == << e >>

\* parts.join(sep)
RECURSIVE join(_, _)
join(parts, sep) ==
    IF parts = << >> THEN << >>
    ELSE IF Len(parts) = 1 THEN Head(parts)
    ELSE Head(parts) \o sep \o join(Tail(parts), sep)

\* Variant: the entries are joined, and the last one is not terminated.
formattedEntries_joined(entries) ==
    join([k \in 1 .. Len(entries) |-> format(entries[k])], << EOL >>)

\* The data of write() and of writeMany(): the formatted entries joined with
\* os.EOL, and os.EOL after the last one.
formattedEntries(entries) ==
    join([k \in 1 .. Len(entries) |-> format(entries[k])], << EOL >>)
       \o << EOL >>

\* The lines that `data` adds to a file of complete lines, each named by the
\* entry whose text it is; `line` is what was read since the last separator.
\* The data the transport writes ends with a separator.
RECURSIVE lines(_, _)
lines(data, line) ==
    IF data = << >> THEN << >>
    ELSE IF Head(data) = EOL
    THEN line \o lines(Tail(data), << >>)
    ELSE lines(Tail(data), Append(line, Head(data)))

\* Variant: write() without its catch block.
writeResult_uncaught(ok) == IF ok THEN "resolved" ELSE "rejected"

\* The promise of write()/writeMany() when appendFile settles: the catch
\* block reports a failure and the call resolves.
writeResult(ok) == "resolved"

\* write()/writeMany(): fsPromises.appendFile settles, and the call returns
\* to flushBuffer()/transport()/close(), which return in turn.
write(t) ==
    /\ pc[t] = "append"
    /\ \E ok \in Outcomes :
          /\ Spend(ok)
          /\ dir' = IF ok
                    THEN appendFile(
                            dir, 0,
                            lines(formattedEntries(local[t].entries), << >>),
                            now)
                    ELSE dir
          /\ diag' = IF ok \/ writeResult(ok) # "resolved" THEN diag
                     ELSE diag \cup {"write"}
          /\ return(t, local[t], writeResult(ok), ~ok)
    /\ completed' = completed \cup
                       {local[t].entries[k] : k \in 1 .. Len(local[t].entries)}
    /\ UNCHANGED facade
    /\ UNCHANGED << rotation, buffering, bufferSize, limits, now, initialized,
                    rotating, buffer, flushIntervalId, nextId, rotations,
                    lastRot >>

\* A day passes, between calls: a filesystem call takes far less than a
\* day. Only deleteOldFiles() reads the clock.
Tick ==
    /\ rotation.maxDays > 0
    /\ \A t \in Slots : pc[t] = "idle"
    /\ now < limits.clock
    /\ now' = now + 1
    /\ UNCHANGED facade
    /\ UNCHANGED << settled, rotation, buffering, bufferSize, limits, faults,
                    dir, initialized, rotating, buffer, flushIntervalId,
                    nextId, pc, local, completed, diag, rotations, lastRot >>

\* -------------------------------------------------------- JavaScript values
\* Values are tagged with their type: undefined, a string (its characters)
\* or an object (its properties << key, value >> in insertion order).
undefined == [type |-> "undefined"]

String(chars) == [type |-> "string", chars |-> chars]

Object(props) == [type |-> "object", props |-> props]

Boolean(b) == [type |-> "boolean", value |-> b]

\* A value JSON.stringify cannot serialise.
bigint == [type |-> "bigint"]

\* The truth value of `value` in a condition.
Truthy(value) ==
    \/ value.type = "object"
    \/ value.type = "bigint"
    \/ value.type = "boolean" /\ value.value
    \/ value.type = "string" /\ value.chars # << >>

\* key in obj
has(props, key) == \E k \in 1 .. Len(props) : props[k][1] = key

\* obj[key]
get(props, key) ==
    IF has(props, key)
    THEN props[CHOOSE k \in 1 .. Len(props) : props[k][1] = key][2]
    ELSE undefined

\* Variant: the value is not stored.
set_lost(props, key, value) == props

\* obj[key] = value: a new key comes last, a known key keeps its place.
set(props, key, value) ==
    IF has(props, key)
    THEN [k \in 1 .. Len(props) |->
             IF props[k][1] = key THEN << key, value >> ELSE props[k]]
    ELSE Append(props, << key, value >>)

\* Object.keys(obj), as a set.
keys(props) == {props[k][1] : k \in 1 .. Len(props)}

\* The properties of `source` are set on `target`, in their order.
RECURSIVE assign(_, _)
assign(target, source) ==
    IF source = << >> THEN target
    ELSE assign(set(target, Head(source)[1], Head(source)[2]), Tail(source))

\* The own properties spread by `...value`: none for undefined.
own(value) == IF value.type = "object" THEN value.props ELSE << >>

\* Variant: the two are spread in the other order, a's value wins.
Spread_first(a, b) == Object(assign(own(b), own(a)))

\* { ...a, ...b }
Spread(a, b) == Object(assign(own(a), own(b)))

\* ----------------------------------------------------------- CommonLogger
\* The variables of the transport and of the calls made on it.
transportState ==
    << rotation, buffering, bufferSize, limits, faults, now, dir,
       initialized, rotating, buffer, flushIntervalId, nextId, pc, local,
       settled, completed, diag, rotations, lastRot, level, minLevel,
       created, timers >>

\* A transport of a logger, which no log() has called yet.
LogTransport(lv) == [level |-> lv, received |-> undefined]

\* The places of the transports of an array among all transports, when the
\* array is the first that is made.
places(array) == [k \in 1 .. Len(array) |-> k]

\* new CommonLogger(config, transports): the logger keeps the array it is
\* given, here the places of its transports among all transports; `made`
\* tells how the logger came about.
CommonLogger(config, transports_, made) ==
    [minLevel |-> IF config.minLevel = "undefined" THEN "info"
                  ELSE config.minLevel,
     defaultContext |-> IF config.defaultContext = undefined
                        THEN Object(<< >>) ELSE config.defaultContext,
     transforms |-> config.transforms,
     transports |-> transports_,
     namespace |-> undefined,
     childLoggers |-> << >>,
     closing |-> FALSE,
     made |-> made]

\* createLogger(config): the transports and the logger of the factory. The
\* environment is config.env, or NODE_ENV, or "development".
createLogger(config) ==
    LET env == config.env
        isDevelopment == env = "development"
        console_ == IF config.console
                    THEN << LogTransport(IF isDevelopment THEN "debug"
                                         ELSE "info") >>
                    ELSE << >>
        file == IF config.file THEN << LogTransport("info") >> ELSE << >>
        defaultContext ==
            Spread(Spread(Object(<< << "env", String(<< env >>) >> >>),
                          IF Truthy(config.appName)
                          THEN Object(<< << "app", config.appName >> >>)
                          ELSE Object(<< >>)),
                   config.defaultContext)
    IN  /\ transports' = console_ \o file \o config.transports
        /\ loggers' =
              << CommonLogger(
                    [minLevel |-> IF isDevelopment THEN "debug" ELSE "info",
                     defaultContext |-> defaultContext,
                     transforms |-> config.transforms],
                    places(console_ \o file \o config.transports),
                    [by |-> "createLogger", from |-> 0, arg |-> config]) >>

\* The inputs of the runs: namespaces, contexts, messages, metadata,
\* configurations of the factory and of the constructor, and transports.
Inputs ==
    [names |-> {String(<< "a" >>), String(<< "b" >>)},
     contexts |-> {Object(<< << "k", String(<< "1" >>) >> >>),
                   Object(<< << "j", String(<< "1" >>) >> >>)},
     messages |-> {<< "m" >>},
     metas |-> {undefined, Object(<< << "u", String(<< "1" >>) >> >>)},
     factoryConfigs |->
        [env : {"development", "production", "test"},
         minLevel : LogLevel \cup {"undefined"},
         console : {TRUE},
         file : BOOLEAN,
         transports : {<< >>, << LogTransport("trace") >>},
         appName : {undefined, String(<< "app" >>)},
         defaultContext : {undefined},
         transforms : {<< >>}],
     loggerConfigs |->
        [minLevel : {"undefined", "trace"},
         defaultContext :
            {undefined, Object(<< << "k", String(<< "0" >>) >> >>)},
         transforms : {<< >>, << "A", "B" >>, << "B", "A" >>}],
     transportLists |-> {<< LogTransport("debug"), LogTransport("error") >>}]

\* createLogger(config) is called, once, for a configuration of the run.
createLogger_call ==
    /\ loggers = << >>
    /\ \E config \in Inputs.factoryConfigs : createLogger(config)
    /\ UNCHANGED << logged, returned, transportState, console, formatting,
                    naming >>

\* new CommonLogger(config, transports) is called, once, for a
\* configuration and transports of the run.
CommonLogger_new ==
    /\ loggers = << >>
    /\ \E config \in Inputs.loggerConfigs,
          sinks \in Inputs.transportLists :
          /\ loggers' = << CommonLogger(config, places(sinks),
                                        [by |-> "new", from |-> 0,
                                         arg |-> config]) >>
          /\ transports' = sinks
    /\ UNCHANGED << logged, returned, transportState, console, formatting,
                    naming >>

\* withContext(context) on logger i.
withContext(i) ==
    /\ Len(loggers) < MaxLoggers
    /\ \E context \in Inputs.contexts :
          LET childLogger ==
                 CommonLogger(
                    [minLevel |-> loggers[i].minLevel,
                     defaultContext |->
                        Spread(loggers[i].defaultContext, context),
                     transforms |-> loggers[i].transforms],
                    loggers[i].transports,
                    [by |-> "withContext", from |-> i, arg |-> context])
          IN  loggers' =
                 Append(loggers,
                        IF Truthy(loggers[i].namespace)
                        THEN [childLogger EXCEPT
                                 !.namespace = loggers[i].namespace]
                        ELSE childLogger)
    /\ UNCHANGED << transports, logged, returned, transportState, console,
                    formatting, naming >>

\* getLogger(namespace) on logger i: the child logger of that name, which
\* is made and stored when the name is first asked for.
getLogger(i, namespace, made) ==
    IF has(loggers[i].childLoggers, namespace)
    THEN UNCHANGED loggers
    ELSE /\ Len(loggers) < MaxLoggers
         /\ LET childLogger ==
                   CommonLogger([minLevel |-> loggers[i].minLevel,
                                 defaultContext |-> loggers[i].defaultContext,
                                 transforms |-> loggers[i].transforms],
                                loggers[i].transports, made)
            IN  loggers' =
                   Append([loggers EXCEPT ![i].childLoggers =
                              set(@, namespace, Len(loggers) + 1)],
                          [childLogger EXCEPT !.namespace = namespace])

\* Variant: the child's name does not carry the parent's.
childNamespace_bare(namespace, n) == n

\* withNamespace, lines 159-161: `${this.namespace}:${namespace}` under a
\* parent that has a namespace.
childNamespace(namespace, n) ==
    IF Truthy(namespace) THEN String(namespace.chars \o << ":" >> \o n.chars)
    ELSE n

\* withNamespace(namespace) on logger i.
withNamespace(i) ==
    /\ \E n \in Inputs.names :
          getLogger(i, childNamespace(loggers[i].namespace, n),
                    [by |-> "withNamespace", from |-> i, arg |-> n])
    /\ UNCHANGED << transports, logged, returned, transportState, console,
                    formatting, naming >>

\* A transform of the runs, as in the tests: the message gets a prefix.
transform(name, e) == [e EXCEPT !.message = << name, ":" >> \o @]

\* Variant: the transforms are applied last to first.
RECURSIVE applyTransforms_reversed(_, _)
applyTransforms_reversed(transforms_, e) ==
    IF transforms_ = << >> THEN e
    ELSE transform(Head(transforms_),
                   applyTransforms_reversed(Tail(transforms_), e))

\* log, lines 118-120: for (const transform of this.transforms)
RECURSIVE applyTransforms(_, _)
applyTransforms(transforms_, e) ==
    IF transforms_ = << >> THEN e
    ELSE applyTransforms(Tail(transforms_), transform(Head(transforms_), e))

\* transport.isLevelEnabled(level) of a transport object.
LogTransport_isLevelEnabled(tr, lv) ==
    indexOf(levels, lv) <= indexOf(levels, tr.level)

\* Transport k is in this.transports of a logger object.
holds(logger, k) ==
    \E at \in 1 .. Len(logger.transports) : logger.transports[at] = k

\* log(level, message, meta) on logger i: the entry is created, transformed
\* and handed to every transport of the logger whose level is enabled.
CommonLogger_log(i) ==
    /\ \E lv \in limits.levels, message \in Inputs.messages,
          meta \in Inputs.metas :
          LET e == [timestamp |-> now, level |-> lv, message |-> message,
                    meta |-> meta,
                    context |-> Spread(Object(<< >>),
                                       loggers[i].defaultContext),
                    namespace |-> loggers[i].namespace]
              final == applyTransforms(loggers[i].transforms, e)
              call == [logger |-> i, level |-> lv, message |-> message,
                       meta |-> meta, entry |-> undefined]
              isLevelEnabled_ ==
                 indexOf(levels, lv) <= indexOf(levels, loggers[i].minLevel)
          IN  IF ~isLevelEnabled_
              THEN /\ logged' = call
                   /\ transports' =
                         [k \in 1 .. Len(transports) |->
                             [transports[k] EXCEPT !.received = undefined]]
              ELSE /\ logged' = [call EXCEPT !.entry = e]
                   /\ transports' =
                         [k \in 1 .. Len(transports) |->
                             [transports[k] EXCEPT !.received =
                                 IF /\ holds(loggers[i], k)
                                    /\ LogTransport_isLevelEnabled(
                                          transports[k], lv)
                                 THEN final ELSE undefined]]
    /\ UNCHANGED << loggers, returned, transportState, console, formatting,
                    naming >>

\* The application calls getLogger(namespace) on logger i, which returns
\* the stored child logger, line 175, or the one it makes, line 190.
getLogger_call(i) ==
    /\ \E namespace \in Inputs.names :
          LET result == IF has(loggers[i].childLoggers, namespace)
                        THEN get(loggers[i].childLoggers, namespace)
                        ELSE Len(loggers) + 1
          IN  /\ getLogger(i, namespace,
                           [by |-> "getLogger", from |-> i,
                            arg |-> namespace])
              /\ returned' =
                    [call |-> "getLogger", logger |-> i,
                     namespace |-> namespace, result |-> result,
                     held |-> returned.held
                              \cup {<< i, namespace, result >>}]
    /\ UNCHANGED << transports, logged, transportState, console, formatting,
                    naming >>

\* close() on logger i, line 198: close() is called on every transport of
\* the logger and the call waits for all of them. The transports of this
\* interface keep nothing that closing changes. The application has one
\* close() under way at a time.
CommonLogger_close(i) ==
    /\ \A j \in 1 .. Len(loggers) : ~loggers[j].closing
    /\ loggers' = [loggers EXCEPT ![i].closing = TRUE]
    /\ returned' =
          [call |-> "close", logger |-> i, namespace |-> undefined,
           result |-> 0, held |-> {h \in returned.held : h[1] # i}]
    /\ UNCHANGED << transports, logged, transportState, console, formatting,
                    naming >>

\* close() on logger i, line 201: every transport has closed, and the child
\* loggers are cleared.
CommonLogger_close_clear(i) ==
    /\ loggers[i].closing
    /\ loggers' = [loggers EXCEPT ![i].closing = FALSE,
                                  ![i].childLoggers = << >>]
    /\ returned' = [returned EXCEPT !.held = {h \in @ : h[1] # i}]
    /\ UNCHANGED << transports, logged, transportState, console, formatting,
                    naming >>

\* close() on logger i: the close() of one of its transports rejects, and so
\* does Promise.all and the call, which does not reach line 201.
CommonLogger_close_rejected(i) ==
    /\ loggers[i].closing
    /\ loggers[i].transports # << >>
    /\ loggers' = [loggers EXCEPT ![i].closing = FALSE]
    /\ returned' = [returned EXCEPT !.held = {h \in @ : h[1] # i}]
    /\ UNCHANGED << transports, logged, transportState, console, formatting,
                    naming >>

\* The steps of an application that asks loggers for child loggers, logs
\* with them, and closes the logger it has constructed itself.
Registry ==
    \/ CommonLogger_new
    \/ \E i \in 1 .. Len(loggers) : getLogger_call(i)
    \/ \E i \in {j \in 1 .. Len(loggers) : loggers[j].made.from = 0} :
          CommonLogger_close(i)
    \/ \E i \in 1 .. Len(loggers) : CommonLogger_close_clear(i)
    \/ \E i \in 1 .. Len(loggers) : CommonLogger_close_rejected(i)
    \/ \E i \in 1 .. Len(loggers) : CommonLogger_log(i)

\* The steps of an application that logs with the logger of the factory.
Factory ==
    \/ createLogger_call
    \/ \E i \in 1 .. Len(loggers) : CommonLogger_log(i)

\* The steps of an application that makes loggers and logs with them.
Logging ==
    \/ CommonLogger_new
    \/ \E i \in 1 .. Len(loggers) : withContext(i)
    \/ \E i \in 1 .. Len(loggers) : withNamespace(i)
    \/ \E i \in 1 .. Len(loggers) : CommonLogger_log(i)

\* ------------------------------------------------------------- formatters
\* The decimal digits of a number, as characters.
decimal(n) ==
    [k \in 1 .. Len(Digits(n)) |->
        << "0", "1", "2", "3", "4", "5", "6", "7", "8", "9" >>[Digits(n)[k] + 1]]

\* Date.prototype.toISOString(), of a date given by its time value.
toISOString(time) == String(<< "T" >> \o decimal(time))

\* TextFormatter.formatLevel(level, colorize)
formatLevel(lv, colorize) ==
    LET toUpperCase ==
           CASE lv = "error" -> "ERROR"
             [] lv = "warn" -> "WARN"
             [] lv = "info" -> "INFO"
             [] lv = "debug" -> "DEBUG"
             [] lv = "trace" -> "TRACE"
    IN  IF ~colorize THEN << "[", toUpperCase, "]" >>
        ELSE << "\\x1b[", lv, "m", "[", toUpperCase, "]", "\\x1b[0m" >>

\* TextFormatter.format(entry) for an entry without namespace, context or
\* metadata: the parts that parts.join(' ') joins.
TextFormatter_format(e, colorize) ==
    << << "[", toISOString(e.timestamp), "]" >>,
       formatLevel(e.level, colorize),
       e.message >>

\* JSON text is a sequence of characters.  A string is quoted, with the
\* quote and the backslash escaped.
RECURSIVE escape(_)
escape(chars) ==
    IF chars = << >> THEN << >>
    ELSE (IF Head(chars) \in {"\"", "\\"}
          THEN << "\\", Head(chars) >>
          ELSE << Head(chars) >>) \o escape(Tail(chars))

quote(chars) == << "\"" >> \o escape(chars) \o << "\"" >>

\* `n` spaces.
spaces(n) == [k \in 1 .. n |-> " "]

\* JSON.stringify throws a TypeError on `value`.
RECURSIVE throws(_)
throws(value) ==
    \/ value.type = "bigint"
    \/ /\ value.type = "object"
       /\ \E k \in 1 .. Len(value.props) : throws(value.props[k][2])

\* The serialization of a string or of an object, with `gap` spaces of
\* indentation per level below the indentation `indent`.  A property whose
\* value is undefined is left out.
RECURSIVE stringify(_, _, _)
RECURSIVE members(_, _, _)
stringify(value, gap, indent) ==
    IF value.type = "string" THEN quote(value.chars)
    ELSE LET kept == SelectSeq(value.props,
                               LAMBDA p : p[2].type # "undefined")
         IN  IF kept = << >> THEN << "{", "}" >>
             ELSE IF gap = 0
             THEN << "{" >> \o members(kept, gap, indent) \o << "}" >>
             ELSE << "{", "\n" >> \o spaces(indent + gap)
                     \o members(kept, gap, indent + gap)
                     \o << "\n" >> \o spaces(indent) \o << "}" >>

members(props, gap, indent) ==
    LET p == Head(props)
        member == quote(<< p[1] >>)
                     \o (IF gap = 0 THEN << ":" >> ELSE << ":", " " >>)
                     \o stringify(p[2], gap, indent)
        separator == IF gap = 0 THEN << "," >>
                     ELSE << ",", "\n" >> \o spaces(indent)
    IN  IF Tail(props) = << >> THEN member
        ELSE member \o separator \o members(Tail(props), gap, indent)

\* JSON.stringify(value, null, gap) of a value that does not throw.
JSON_stringify(value, gap) == stringify(value, gap, 0)

\* White space before a token is skipped.
RECURSIVE skip(_)
skip(text) ==
    IF text # << >> /\ Head(text) \in {" ", "\n"} THEN skip(Tail(text))
    ELSE text

\* The string whose opening quote has been read, and the text after it.
RECURSIVE parseString(_, _)
parseString(text, chars) ==
    IF Head(text) = "\"" THEN [value |-> String(chars), rest |-> Tail(text)]
    ELSE IF Head(text) = "\\"
    THEN parseString(Tail(Tail(text)), Append(chars, text[2]))
    ELSE parseString(Tail(text), Append(chars, Head(text)))

\* The value at the head of the text, and the text after it.  A member
\* whose key is known replaces the value of that key.
RECURSIVE parseValue(_)
RECURSIVE parseMembers(_, _)
parseValue(text) ==
    LET t == skip(text)
    IN  IF Head(t) = "\"" THEN parseString(Tail(t), << >>)
        ELSE IF Head(skip(Tail(t))) = "}"
        THEN [value |-> Object(<< >>), rest |-> Tail(skip(Tail(t)))]
        ELSE parseMembers(Tail(t), << >>)

parseMembers(text, props) ==
    LET key == parseString(Tail(skip(text)), << >>)
        val == parseValue(Tail(skip(key.rest)))
        after == skip(val.rest)
        read == set(props, key.value.chars[1], val.value)
    IN  IF Head(after) = "," THEN parseMembers(Tail(after), read)
        ELSE [value |-> Object(read), rest |-> Tail(after)]

\* JSON.parse(text)
JSON_parse(text) == parseValue(text).value

\* JsonFormatter.format(entry) of a formatter with the options `opts`.
JsonFormatter_format(e, opts) ==
    LET additionalFields == get(opts.props, "additionalFields")
        prettyPrint == get(opts.props, "prettyPrint")
        core == << << "timestamp", toISOString(e.timestamp) >>,
                   << "level", String(<< e.level >>) >>,
                   << "message", String(e.message) >> >>
        namespace == IF Truthy(e.namespace)
                     THEN << << "namespace", e.namespace >> >> ELSE << >>
        context == IF /\ Truthy(e.context)
                      /\ Cardinality(keys(e.context.props)) > 0
                   THEN << << "context", e.context >> >> ELSE << >>
        meta == IF Truthy(e.meta) /\ Cardinality(keys(e.meta.props)) > 0
                THEN << << "meta", e.meta >> >> ELSE << >>
        logObject ==
            Object(assign(assign(assign(assign(core, namespace), context),
                                 meta),
                          own(additionalFields)))
        fallbackObject ==
            Object(core \o << << "error",
                               String(<< "Failed to serialize log entry" >>)
                            >> >>)
    IN  IF ~throws(logObject)
        THEN JSON_stringify(logObject, IF Truthy(prettyPrint) THEN 2 ELSE 0)
        ELSE JSON_stringify(fallbackObject, 0)

\* The options and the entries of the runs.
FormatterInputs ==
    LET values ==
           {undefined,
            Object(<< >>),
            Object(<< << "k", String(<< "v" >>) >> >>),
            Object(<< << "k", undefined >> >>),
            Object(<< << "k", String(<< "v" >>) >>,
                      << "o", Object(<< << "q", String(<< "\"" >>) >> >>) >> >>),
            Object(<< << "k", bigint >> >>)}
    IN  [options |->
            {undefined,
             Object(<< << "prettyPrint", Boolean(TRUE) >> >>),
             Object(<< << "additionalFields",
                          Object(<< << "app", String(<< "x" >>) >> >>) >> >>),
             Object(<< << "prettyPrint", Boolean(TRUE) >>,
                       << "additionalFields",
                          Object(<< << "app", String(<< "x" >>) >> >>) >> >>),
             Object(<< << "additionalFields",
                          Object(<< << "level",
                                       String(<< "audit" >>) >> >>) >> >>),
             Object(<< << "additionalFields",
                          Object(<< << "context", Object(<< >>) >> >>) >> >>)},
         entries |->
            [timestamp : {0, 12},
             level : {"info", "error"},
             message : {<< "m" >>, << "a", "\"", "\\", " ", "b" >>},
             meta : values,
             context : values,
             namespace : {undefined, String(<< "n" >>)}]]

\* new JsonFormatter(options): the defaults, then the given options.
JsonFormatter_new ==
    /\ options = undefined
    /\ \E given \in FormatterInputs.options :
          options' =
             Spread(Object(<< << "prettyPrint", Boolean(FALSE) >>,
                              << "additionalFields", Object(<< >>) >> >>),
                    given)
    /\ UNCHANGED << entry, formatted, transportState, console, registry,
                    naming >>

\* formatter.format(entry)
JsonFormatter_format_call ==
    /\ options # undefined
    /\ formatted' = JsonFormatter_format(entry, options)
    /\ UNCHANGED << options, entry, transportState, console, registry,
                    naming >>

\* The steps of an application that formats entries as JSON.
Formatting == JsonFormatter_new \/ JsonFormatter_format_call

\* ------------------------------------------------------- ConsoleTransport
\* The variables of a file transport, which a console transport leaves
\* alone, and the configuration.
fileState ==
    << rotation, faults, now, dir, rotating, completed, diag, rotations,
       lastRot, created, limits, buffering, bufferSize, level, minLevel,
       useErrorConsole >>

\* Variant: errors go to the error console whatever useErrorConsole is.
toErrorConsole_always(e) == e.level = "error"

\* write, line 448: this.useErrorConsole && entry.level === 'error'
toErrorConsole(e) == useErrorConsole /\ e.level = "error"

\* ConsoleTransport.write(entry); colorize has its default, true.
ConsoleTransport_write(e) ==
    LET formattedEntry == TextFormatter_format(e, TRUE)
    IN  IF toErrorConsole(e)
        THEN /\ stderr' = Append(stderr, formattedEntry)
             /\ stdout' = stdout
        ELSE /\ stdout' = Append(stdout, formattedEntry)
             /\ stderr' = stderr

\* BaseTransport.writeMany(entries), or write(entry) for one entry, up to
\* the await: the first entry is written at once and the call waits before
\* each further one.
writeMany_console(t, l, entries) ==
    /\ ConsoleTransport_write(Head(entries))
    /\ IF Tail(entries) = << >>
       THEN return(t, l, "resolved", FALSE)
       ELSE /\ pc' = [pc EXCEPT ![t] = "writeMany"]
            /\ local' = [local EXCEPT ![t] =
                            [l EXCEPT !.entries = Tail(entries)]]
            /\ settled' = NoCall

\* flushBuffer() of a console transport.
flushBuffer_console(t, l, buf) ==
    IF buf = << >>
    THEN /\ return(t, l, "resolved", FALSE)
         /\ buffer' = buf
         /\ UNCHANGED << stdout, stderr >>
    ELSE /\ buffer' = << >>
         /\ writeMany_console(t, l, buf)

\* transport(entry) of a console transport, after the initialization.
deliver_console(t, l) ==
    IF ~isLevelEnabled(l.level)
    THEN /\ return(t, l, "resolved", FALSE)
         /\ UNCHANGED << buffer, nextId, stdout, stderr >>
    ELSE LET e == [timestamp |-> now, level |-> l.level, message |-> nextId]
         IN  /\ nextId' = nextId + 1
             /\ IF buffering
                THEN LET buf == Append(buffer, e)
                     IN  IF reachesThreshold(Len(buf))
                         THEN flushBuffer_console(t, l, buf)
                         ELSE /\ buffer' = buf
                              /\ return(t, l, "resolved", FALSE)
                              /\ UNCHANGED << stdout, stderr >>
                ELSE /\ buffer' = buffer
                     /\ writeMany_console(t, l, << e >>)

\* transport(entry) is called on a console transport: the first call runs
\* BaseTransport.initialize(), which has no await of its own, and awaits
\* its promise; a later call goes on at once.
transport_console(t) ==
    /\ Free(t)
    /\ \E lv \in limits.levels :
          LET l == [Frame("transport") EXCEPT !.level = lv]
          IN  /\ isLevelEnabled(lv) => nextId <= limits.entries
              /\ IF isInitialized(initialized)
                 THEN /\ deliver_console(t, l)
                      /\ UNCHANGED << initialized, flushIntervalId, timers >>
                 ELSE /\ initialized' = TRUE
                      /\ flushIntervalId' = (buffering \/ flushIntervalId)
                      /\ timers' = IF buffering THEN timers + 1 ELSE timers
                      /\ pc' = [pc EXCEPT ![t] = "accept"]
                      /\ local' = [local EXCEPT ![t] = l]
                      /\ settled' = NoCall
                      /\ UNCHANGED << buffer, nextId, stdout, stderr >>
    /\ UNCHANGED << fileState, registry, formatting, naming >>

\* transport(entry) resumes after `await this.initialize()`.
resume_console(t) ==
    /\ pc[t] = "accept"
    /\ deliver_console(t, local[t])
    /\ UNCHANGED << initialized, flushIntervalId, timers >>
    /\ UNCHANGED << fileState, registry, formatting, naming >>

\* writeMany(entries) resumes after `await this.write(entry)`.
writeMany_next(t) ==
    /\ pc[t] = "writeMany"
    /\ writeMany_console(t, local[t], local[t].entries)
    /\ UNCHANGED << initialized, flushIntervalId, timers, buffer, nextId >>
    /\ UNCHANGED << fileState, registry, formatting, naming >>

\* The setInterval callback, on a console transport.
flushTimer_console(t) ==
    /\ Free(t)
    /\ flushIntervalId
    /\ flushBuffer_console(t, Frame("timer"), buffer)
    /\ UNCHANGED << initialized, flushIntervalId, timers, nextId >>
    /\ UNCHANGED << fileState, registry, formatting, naming >>

\* close() of a console transport.
close_console(t) ==
    /\ Free(t)
    /\ flushIntervalId' = FALSE
    /\ IF buffering /\ Len(buffer) > 0
       THEN flushBuffer_console(t, Frame("close"), buffer)
       ELSE /\ return(t, Frame("close"), "resolved", FALSE)
            /\ UNCHANGED << buffer, stdout, stderr >>
    /\ UNCHANGED << initialized, timers, nextId >>
    /\ UNCHANGED << fileState, registry, formatting, naming >>

\* The steps of the calls on a console transport.
Console ==
    \/ \E t \in Running : transport_console(t)
    \/ \E t \in Running : resume_console(t)
    \/ \E t \in Running : writeMany_next(t)
    \/ \E t \in Running : flushTimer_console(t)
    \/ \E t \in Running : close_console(t)

\* ------------------------------------------------------------ file names
\* File names are sequences of characters.  The transport's file is
\* app.log: path.parse(filename) gives the basename and the extension.
basename == << "a", "p", "p" >>

extension == << ".", "l", "o", "g" >>

filename == basename \o extension

\* `${this.basename}.${index}${this.extension}`
rotatedName(index) == basename \o << "." >> \o decimal(index) \o extension

Digit == {"0", "1", "2", "3", "4", "5", "6", "7", "8", "9"}

\* The place of a character among the characters of the names of the runs,
\* in code-unit order.
charCodeAt(c) ==
    LET codeUnits ==
           << ".", "0", "1", "2", "3", "4", "5", "6", "7", "8", "9", "a",
              "b", "e", "g", "k", "l", "m", "n", "o", "p", "s", "t", "x",
              "y" >>
    IN  CHOOSE k \in 1 .. Len(codeUnits) : codeUnits[k] = c

\* a < b for two strings (code-unit order, as Array.prototype.sort uses).
RECURSIVE StringLess(_, _)
StringLess(a, b) ==
    IF a = << >> THEN b # << >>
    ELSE IF b = << >> THEN FALSE
    ELSE IF Head(a) # Head(b) THEN charCodeAt(Head(a)) < charCodeAt(Head(b))
    ELSE StringLess(Tail(a), Tail(b))

\* files.sort().reverse() of a set of names
RECURSIVE sortReverse(_)
sortReverse(S) ==
    IF S = {} THEN << >>
    ELSE LET m == CHOOSE x \in S : \A y \in S \ {x} : StringLess(y, x)
         IN  << m >> \o sortReverse(S \ {m})

\* new RegExp(`${this.basename}\\.(\\d+)${this.extension}`)
\* as its elements: a literal character, `.` (any character, which a dot of
\* the template string becomes as it is not escaped) or the group (\d+).
RotatedPattern ==
    LET Literal(c) == [kind |-> "literal", char |-> c]
        AnyChar == [kind |-> "any", char |-> "."]
        DigitsGroup == [kind |-> "digits", char |-> "0"]
        Unescaped(c) == IF c = "." THEN AnyChar ELSE Literal(c)
    IN  [k \in 1 .. Len(basename) |-> Unescaped(basename[k])]
           \o << Literal("."), DigitsGroup >>
           \o [k \in 1 .. Len(extension) |-> Unescaped(extension[k])]

NoMatch == [found |-> FALSE, group |-> << >>]

\* The number of digits the text starts with.
RECURSIVE leadingDigits(_)
leadingDigits(text) ==
    IF text # << >> /\ Head(text) \in Digit
    THEN 1 + leadingDigits(Tail(text))
    ELSE 0

\* The match of the elements `re` at the position `at` of `text`, and what
\* its group captured; the group takes as many digits as lets the rest
\* match.
RECURSIVE matchHere(_, _, _)
matchHere(re, text, at) ==
    LET rest == SubSeq(text, at, Len(text))
    IN  IF re = << >> THEN [found |-> TRUE, group |-> << >>]
        ELSE IF Head(re).kind = "digits"
        THEN LET lengths ==
                    {n \in 1 .. leadingDigits(rest) :
                        matchHere(Tail(re), text, at + n).found}
             IN  IF lengths = {} THEN NoMatch
                 ELSE LET n == CHOOSE x \in lengths :
                                  \A y \in lengths : y <= x
                      IN  [found |-> TRUE, group |-> SubSeq(rest, 1, n)]
        ELSE IF rest = << >> THEN NoMatch
        ELSE IF Head(re).kind = "any" \/ Head(re).char = Head(rest)
        THEN matchHere(Tail(re), text, at + 1)
        ELSE NoMatch

\* file.match(re): the leftmost match.
match(file, re) ==
    LET starts == {at \in 1 .. (Len(file) + 1) : matchHere(re, file, at).found}
    IN  IF starts = {} THEN NoMatch
        ELSE matchHere(re, file,
                       CHOOSE at \in starts : \A other \in starts : at <= other)

\* pattern.test(file)
test(file, re) == match(file, re).found

\* parseInt(digits, 10)
RECURSIVE parseInt(_)
parseInt(digits) ==
    IF digits = << >> THEN 0
    ELSE 10 * parseInt(SubSeq(digits, 1, Len(digits) - 1))
            + (charCodeAt(digits[Len(digits)]) - charCodeAt("0"))

\* The names of the runs: the transport's own, with one more generation
\* than the largest maxFiles, and files of other owners in the directory.
FileNames ==
    {filename} \cup {rotatedName(k) : k \in 1 .. (MaxFiles + 1)}
       \cup {<< "a", "p", "p", ".", "1", ".", "l", "o", "g", ".", "b", "a",
                "k" >>,
             << "m", "y", "a", "p", "p", ".", "2", ".", "l", "o", "g" >>,
             << "a", "p", "p", ".", "1", "x", "l", "o", "g" >>,
             << "n", "o", "t", "e", "s" >>}

\* fsPromises.readdir(this.dirname)
readdir(d) == {name \in DOMAIN d : d[name].exists}

\* getExistingRotatedFiles() on the directory by name
getExistingRotatedFiles_names(d) ==
    {file \in readdir(d) : test(file, RotatedPattern)}

NoWork == [pc |-> "idle", files |-> << >>, i |-> 0, prune |-> {},
           rotations |-> 0, appends |-> 0]

\* checkRotation() has found the active file full: rotate() stats it, lists
\* the rotated files, sorts and reverses the list and starts its loop at
\* the last element.
rotate_names ==
    /\ work.pc = "idle"
    /\ work.rotations < MaxRotations
    /\ folder[filename].exists
    /\ LET files == sortReverse(getExistingRotatedFiles_names(folder))
       IN  work' = [work EXCEPT !.files = files,
                                !.i = Len(files),
                                !.rotations = @ + 1,
                                !.pc = IF Len(files) >= 1 THEN "shift"
                                       ELSE "ren_active"]
    /\ UNCHANGED << folder, transportState, console, registry, formatting >>

\* rotate(): files[i] is unlinked or renamed to the next index.
rotate_names_shift ==
    /\ work.pc = "shift"
    /\ LET file == work.files[work.i]
           index == parseInt(match(file, RotatedPattern).group)
           newIndex == index + 1
       IN  folder' = IF exceedsMaxFiles(newIndex)
                     THEN unlink(folder, file)
                     ELSE rename(folder, file, rotatedName(newIndex))
    /\ work' = [work EXCEPT !.i = @ - 1,
                            !.pc = IF work.i - 1 >= 1 THEN "shift"
                                   ELSE "ren_active"]
    /\ UNCHANGED << transportState, console, registry, formatting >>

\* rotate(): the active file is renamed to index 1; with maxDays > 0
\* deleteOldFiles() lists the rotated files.
rotate_names_active ==
    /\ work.pc = "ren_active"
    /\ folder' = rename(folder, filename, rotatedName(1))
    /\ work' = IF rotation.maxDays > 0
               THEN [work EXCEPT
                        !.pc = "prune",
                        !.prune = getExistingRotatedFiles_names(folder')]
               ELSE [work EXCEPT !.pc = "append"]
    /\ UNCHANGED << transportState, console, registry, formatting >>

\* deleteOldFiles(): the next listed file is unlinked when it is too old.
deleteOldFiles_names ==
    /\ work.pc = "prune"
    /\ IF work.prune = {}
       THEN /\ work' = [work EXCEPT !.pc = "append"]
            /\ UNCHANGED folder
       ELSE \E file \in work.prune :
               /\ folder' = IF isTooOld(stat(folder, file, TRUE), now)
                            THEN unlink(folder, file)
                            ELSE folder
               /\ work' = [work EXCEPT !.prune = @ \ {file}]
    /\ UNCHANGED << transportState, console, registry, formatting >>

\* write(): the entry is appended to the active file, which is created.
write_names ==
    /\ work.pc = "append"
    /\ folder' = appendFile(folder, filename, << work.appends + 1 >>, now)
    /\ work' = [work EXCEPT !.pc = "idle", !.appends = @ + 1]
    /\ UNCHANGED << transportState, console, registry, formatting >>

\* The steps of a transport at work in a directory that holds other files.
Renaming ==
    \/ rotate_names
    \/ rotate_names_shift
    \/ rotate_names_active
    \/ deleteOldFiles_names
    \/ write_names

\* ------------------------------------------------------- specifications
\* The steps of the calls when no file is older than maxDays.
Today ==
    \/ \E t \in Running : log(t)
    \/ \E t \in Running : initialize_call(t)
    \/ \E t \in Running : initialize(t)
    \/ \E t \in Running : transport(t)
    \/ \E t \in Running : flushTimer(t)
    \/ \E t \in Running : close(t)
    \/ \E t \in Running : checkRotation_stat(t)
    \/ \E t \in Running : checkRotation(t)
    \/ \E t \in Running : rotate_stat(t)
    \/ \E t \in Running : rotate(t)
    \/ \E t \in Running : rotate_readdir(t)
    \/ \E t \in Running : rotate_shift(t)
    \/ \E t \in Running : rotate_active(t)
    \/ \E t \in Running : deleteOldFiles_readdir(t)
    \/ \E t \in Running : deleteOldFiles_stat(t)
    \/ \E t \in Running : write(t)

Next ==
    \/ Today
    \/ \E t \in Running : deleteOldFiles_unlink(t)
    \/ Tick

\* The steps of the calls on a transport whose file never needs rotation.
Flushing ==
    \/ \E t \in Running : log(t)
    \/ \E t \in Running : initialize_call(t)
    \/ \E t \in Running : initialize(t)
    \/ \E t \in Running : transport(t)
    \/ \E t \in Running : flushTimer(t)
    \/ \E t \in Running : close(t)
    \/ \E t \in Running : checkRotation_stat(t)
    \/ \E t \in Running : checkRotation(t)
    \/ \E t \in Running : write(t)

\* The steps of the calls when transport(entry) is also called directly.
Api ==
    \/ Today
    \/ \E t \in Running : transport_entry(t)

\* Transports that buffer, with the given thresholds.
Buffered(sizes) == [buffering : {TRUE}, bufferSize : sizes]

\* The transport that does not buffer (bufferSize has its default).
Unbuffered == {[buffering |-> FALSE, bufferSize |-> 100]}

\* The state after construction, for a configuration and bounds of a run.
Start(run, budget, policies, buffers, mins) ==
    /\ rotation \in policies
    /\ \E b \in buffers : buffering = b.buffering /\ bufferSize = b.bufferSize
    /\ limits = run
    /\ faults = budget
    /\ now = 0
    /\ dir = [k \in 0 .. MaxIndex |-> NoFile]
    /\ initialized = FALSE
    /\ rotating = FALSE
    /\ buffer = << >>
    /\ flushIntervalId = FALSE
    /\ nextId = 1
    /\ pc = [t \in Slots |-> "idle"]
    /\ local = [t \in Slots |-> NoLocal]
    /\ settled = NoCall
    /\ completed = {}
    /\ diag = {}
    /\ rotations = 0
    /\ lastRot = NoRot
    /\ level \in mins
    /\ minLevel \in mins
    /\ created = 0
    /\ timers = 0

\* No console transport is at work: nothing is written to the streams.
NoConsole == useErrorConsole = TRUE /\ stdout = << >> /\ stderr = << >>

\* No logger object is at work: no log(), getLogger() or close() call has
\* been made. `held` are the loggers that getLogger() has returned, each
\* with the logger and the namespace it was asked of, since the latest
\* close() of that logger.
NoLoggers ==
    /\ loggers = << >> /\ transports = << >>
    /\ logged = [logger |-> 0, level |-> "none", message |-> << >>,
                 meta |-> undefined, entry |-> undefined]
    /\ returned = [call |-> "none", logger |-> 0, namespace |-> undefined,
                   result |-> 0, held |-> {}]

\* No rotation works on the directory by name.
NoFolder == folder = << >> /\ work = NoWork

\* No formatter is at work.
NoFormatter == options = undefined /\ entry = undefined /\ formatted = << >>

\* Concurrent calls on one transport within one day, every filesystem call
\* succeeding.
Init ==
    /\ Start([slots |-> MaxSlots, entries |-> MaxEntries, clock |-> 0,
              levels |-> {"info"}],
             0,
             [maxSize : 1 .. 2, maxDays : 0 .. 1, maxFiles : 1 .. MaxFiles],
             Unbuffered \cup Buffered(1 .. 2),
             {"info"})
    /\ NoConsole /\ NoLoggers /\ NoFormatter /\ NoFolder

Spec == Init /\ [][Today]_vars

\* Concurrent calls racing for the rotation of a file that every entry
\* fills.
InitRace ==
    /\ Start([slots |-> MaxSlots, entries |-> MaxEntries, clock |-> 0,
              levels |-> {"info"}],
             0,
             [maxSize : {1}, maxDays : {1}, maxFiles : {1}],
             Buffered({1}),
             {"info"})
    /\ NoConsole /\ NoLoggers /\ NoFormatter /\ NoFolder

SpecRace == InitRace /\ [][Today]_vars

\* Concurrent calls on a transport whose file does not fill, without
\* buffering or with a buffer of two entries: threshold flushes, timer
\* flushes and close() overlap.
InitFlush ==
    /\ Start([slots |-> MaxSlots, entries |-> MaxEntries, clock |-> 0,
              levels |-> {"info"}],
             0,
             [maxSize : {100}, maxDays : {0}, maxFiles : {1}],
             Unbuffered \cup Buffered({2}),
             {"info"})
    /\ NoConsole /\ NoLoggers /\ NoFormatter /\ NoFolder

SpecFlush == InitFlush /\ [][Flushing]_vars

\* Concurrent calls on a file that two entries fill, with enough entries
\* for a call to check the size before the rotation of another call and to
\* act after it.
InitStale ==
    /\ Start([slots |-> MaxSlots, entries |-> SeqEntries, clock |-> 0,
              levels |-> {"info"}],
             0,
             [maxSize : {2}, maxDays : {1}, maxFiles : {1}],
             Buffered({1}),
             {"info"})
    /\ NoConsole /\ NoLoggers /\ NoFormatter /\ NoFolder

SpecStale == InitStale /\ [][Today]_vars

\* The same runs under the scheduling of the event loop: a filesystem call
\* settles and the call awaiting it resumes, and the callback of a timer that
\* is set runs (a callback that finds the buffer empty does nothing).
\* Nothing obliges the application to make another call.
Scheduling ==
    /\ \A t \in Slots :
          WF_vars(\/ initialize(t)
                  \/ transport(t)
                  \/ checkRotation_stat(t)
                  \/ checkRotation(t)
                  \/ write(t))
    /\ WF_vars(\E t \in Running : flushTimer(t) /\ buffer # << >>)

SpecFlushLive == InitFlush /\ [][Flushing]_vars /\ Scheduling

\* One call at a time over several days, every filesystem call succeeding:
\* longer runs, with more generations.
InitSeq ==
    /\ Start([slots |-> 1, entries |-> SeqEntries, clock |-> MaxClock,
              levels |-> {"info"}],
             0,
             [maxSize : 1 .. 2, maxDays : 0 .. 1, maxFiles : 1 .. SeqFiles],
             Unbuffered \cup Buffered(1 .. 2),
             {"info"})
    /\ NoConsole /\ NoLoggers /\ NoFormatter /\ NoFolder

SpecSeq == InitSeq /\ [][Next]_vars

\* One call at a time within one day, whose filesystem calls may fail.
InitFault ==
    /\ Start([slots |-> 1, entries |-> SeqEntries, clock |-> 0,
              levels |-> {"info"}],
             MaxFaults,
             [maxSize : 1 .. 2, maxDays : 0 .. 1, maxFiles : 1 .. MaxFiles],
             Unbuffered \cup Buffered(1 .. 2),
             {"info"})
    /\ NoConsole /\ NoLoggers /\ NoFormatter /\ NoFolder

SpecFault == InitFault /\ [][Today]_vars

\* One call at a time, called by the logger or directly, at every level
\* and with every minimum level; filesystem calls may fail.
InitApi ==
    /\ Start([slots |-> 1, entries |-> MaxEntries, clock |-> 0,
              levels |-> LogLevel],
             MaxFaults,
             [maxSize : {1}, maxDays : {1}, maxFiles : {1}],
             Unbuffered \cup Buffered({1}),
             LogLevel)
    /\ NoConsole /\ NoLoggers /\ NoFormatter /\ NoFolder

SpecApi == InitApi /\ [][Api]_vars

\* Concurrent calls on a console transport, at three levels.
InitConsole ==
    /\ Start([slots |-> MaxSlots, entries |-> MaxEntries, clock |-> 0,
              levels |-> {"error", "info", "debug"}],
             0,
             [maxSize : {1}, maxDays : {0}, maxFiles : {1}],
             Unbuffered \cup Buffered(1 .. 2),
             {"info"})
    /\ useErrorConsole \in BOOLEAN
    /\ stdout = << >>
    /\ stderr = << >>
    /\ NoLoggers /\ NoFormatter /\ NoFolder

SpecConsole == InitConsole /\ [][Console]_vars

\* An application logs at every level with the logger that createLogger
\* returns; the transports only record what they are called with.
InitFactory ==
    /\ Start([slots |-> 1, entries |-> 0, clock |-> 0, levels |-> LogLevel],
             0,
             [maxSize : {1}, maxDays : {0}, maxFiles : {1}],
             Unbuffered,
             {"info"})
    /\ NoConsole /\ NoLoggers /\ NoFormatter /\ NoFolder

SpecFactory == InitFactory /\ [][Factory]_vars

\* An application makes a logger, derives loggers from it and logs.
InitLogger ==
    /\ Start([slots |-> 1, entries |-> 0, clock |-> 0,
              levels |-> {"error", "debug", "trace"}],
             0,
             [maxSize : {1}, maxDays : {0}, maxFiles : {1}],
             Unbuffered,
             {"info"})
    /\ NoConsole /\ NoLoggers /\ NoFormatter /\ NoFolder

SpecLogger == InitLogger /\ [][Logging]_vars

\* An application asks loggers for child loggers by namespace, logs with
\* them at the DEBUG level and closes the logger it has constructed.
InitRegistry ==
    /\ Start([slots |-> 1, entries |-> 0, clock |-> 0, levels |-> {"debug"}],
             0,
             [maxSize : {1}, maxDays : {0}, maxFiles : {1}],
             Unbuffered,
             {"info"})
    /\ NoConsole /\ NoLoggers /\ NoFormatter /\ NoFolder

SpecRegistry == InitRegistry /\ [][Registry]_vars

\* An application makes a JSON formatter and formats an entry with it.
InitJson ==
    /\ Start([slots |-> 1, entries |-> 0, clock |-> 0, levels |-> {"info"}],
             0,
             [maxSize : {1}, maxDays : {0}, maxFiles : {1}],
             Unbuffered,
             {"info"})
    /\ NoConsole /\ NoLoggers
    /\ options = undefined /\ entry \in FormatterInputs.entries /\ formatted = << >>
    /\ NoFolder

SpecJson == InitJson /\ [][Formatting]_vars

\* A transport whose every entry fills the file, in a directory that holds
\* old files: generations of its own and files of other owners.
InitNames ==
    /\ Start([slots |-> 1, entries |-> 0, clock |-> 0, levels |-> {"info"}],
             0,
             [maxSize : {1}, maxDays : 0 .. 1, maxFiles : 1 .. MaxFiles],
             Unbuffered,
             {"info"})
    /\ NoConsole /\ NoLoggers /\ NoFormatter
    /\ \E present \in SUBSET (FileNames \ {filename}) :
          folder = [name \in FileNames |->
                       IF name = filename
                       THEN [NoFile EXCEPT !.exists = TRUE,
                                           !.content = << 0 >>]
                       ELSE IF name \in present
                       THEN [NoFile EXCEPT !.exists = TRUE,
                                           !.content = << -Len(name) >>,
                                           !.mtime = -2]
                       ELSE NoFile]
    /\ work = NoWork

SpecNames == InitNames /\ [][Renaming]_vars

\* ----------------------------------------------------------- vocabulary
\* The call of slot t is inside rotate(), past the `rotating` guard.
InRotate(t) ==
    pc[t] \in {"rot_stat", "rot_then", "readdir", "shift", "ren_active",
               "p_readdir", "p_stat", "p_unlink"}

Rotators == {t \in Slots : InRotate(t)}

\* The step in which the call of slot t leaves rotate().
LeavesRotate(t) == InRotate(t) /\ pc'[t] = "append"

\* How severe a level is: LogLevel.ERROR is the most severe.
Severity(lv) ==
    CASE lv = "error" -> 5
      [] lv = "warn" -> 4
      [] lv = "info" -> 3
      [] lv = "debug" -> 2
      [] lv = "trace" -> 1
      [] OTHER -> 0

Range(s) == {s[k] : k \in 1 .. Len(s)}

Generations == {k \in 1 .. MaxIndex : dir[k].exists}

\* The log, oldest bytes first: the generations from the highest index
\* down to 1, then the active file.
RECURSIVE LogFrom(_)
LogFrom(k) == IF k = 0 THEN dir[0].content
              ELSE dir[k].content \o LogFrom(k - 1)

Log == LogFrom(MaxIndex)

\* Number of times entry e occurs in the files.
RECURSIVE Count(_, _)
Count(e, s) == IF s = << >> THEN 0
               ELSE (IF Head(s) = e THEN 1 ELSE 0) + Count(e, Tail(s))

\* -------------------------------------------------------------- claims
\* C3: at most one execution of rotate() is past the `rotating` guard at
\* any time, the flag is set exactly while one is, and no rename or unlink
\* of a rotation finds its file taken away by another rotation.
C3_OneRotationInFlight ==
    /\ Cardinality(Rotators) <= 1
    /\ rotating <=> Rotators # {}
    /\ ~lastRot.missing

\* C3 witness: a call is inside rotate() while another call is in flight
\* in checkRotation or about to append.
C3_Witness ==
    \E t \in Slots, u \in Slots :
        /\ t # u
        /\ pc[t] = "shift"
        /\ pc[u] \in {"cr_then", "append"}

\* C4: once close() has returned, every entry accepted into the buffer
\* before close() was called has had its destination write completed.
C4_CloseFlushesAll ==
    (buffering /\ settled.call = "close" /\ settled.result = "resolved")
        => settled.snap \subseteq completed

\* C5: the entries lie in the log in the order in which transport()
\* accepted them.
C5_Fifo ==
    \A p \in 1 .. Len(Log), q \in 1 .. Len(Log) : p < q => Log[p] < Log[q]

\* C9: after a completed rotate() whose filesystem calls all succeeded,
\* every generation has an index in 1 .. maxFiles, and the content of a
\* generation whose shifted index exceeds maxFiles is in no file.
C9_RetentionBound ==
    (lastRot.state = "done" /\ ~lastRot.failed) =>
        /\ \A k \in 1 .. MaxIndex :
              lastRot.end[k].exists => k <= rotation.maxFiles
        /\ Cardinality({k \in 1 .. MaxIndex : lastRot.end[k].exists})
              <= rotation.maxFiles
        /\ \A k \in 1 .. MaxIndex :
              (lastRot.start[k].exists /\ k + 1 > rotation.maxFiles) =>
                 \A j \in 0 .. MaxIndex :
                    ~(/\ lastRot.end[j].exists
                      /\ lastRot.end[j].content = lastRot.start[k].content)

\* C9 witness: a rotation has completed that found a generation at index
\* maxFiles.
C9_Witness ==
    /\ lastRot.state = "done"
    /\ ~lastRot.failed
    /\ lastRot.renamed
    /\ lastRot.start[rotation.maxFiles].exists

\* C1: a rotate() that finds the generations 1 .. maxFiles (all of its
\* filesystem calls succeeding, no age pruning) deletes the content of
\* generation maxFiles, moves the content of every other generation k to
\* index k + 1, and moves the active file's content to index 1.
C1_RotationChain ==
    (/\ lastRot.state = "done"
     /\ ~lastRot.failed
     /\ rotation.maxDays = 0
     /\ \A k \in 1 .. rotation.maxFiles : lastRot.start[k].exists) =>
        /\ \A k \in 1 .. (rotation.maxFiles - 1) :
              /\ lastRot.end[k + 1].exists
              /\ lastRot.end[k + 1].content = lastRot.start[k].content
        /\ lastRot.end[1].exists
        /\ lastRot.end[1].content = lastRot.start[0].content
        /\ \A j \in 0 .. MaxIndex :
              ~(/\ lastRot.end[j].exists
                /\ lastRot.end[j].content =
                      lastRot.start[rotation.maxFiles].content)

\* C2: while fewer than maxFiles rotations have happened and age pruning is
\* off, every appended entry is exactly once in the files, and after a
\* rotation generation 1 is what the active file was just before it.
C2_NoEntryLost ==
    (rotations < rotation.maxFiles /\ rotation.maxDays = 0) =>
        /\ \A e \in completed : Count(e, Log) = 1
        /\ (lastRot.state = "done" /\ lastRot.renamed) =>
              /\ dir[1].exists
              /\ dir[1].content = lastRot.start[0].content

\* C6: no promise of log() or of a transport() call launched by it is
\* rejected.
C6_NeverRejects ==
    /\ settled.log # "rejected"
    /\ settled.result # "rejected"

\* C7: a write()/writeMany() whose appendFile failed has resolved, the
\* failure is reported, and the `rotating` flag is not left set: it is set
\* only while another call is inside rotate().
C7_AppendFailureContained ==
    settled.appendFailed =>
        /\ settled.result = "resolved"
        /\ "write" \in diag
        /\ rotating => Rotators # {}

\* C7 witness: a write has returned after its appendFile failed.
C7_Witness ==
    settled.appendFailed /\ settled.call = "transport"

\* C8: when the rename or unlink of one generation fails, rotate() still
\* moves every other listed generation away from its index, renames the
\* active file to index 1 and, with maxDays > 0, runs the age pruning.
C8_FaultIsolated ==
    (lastRot.state = "done" /\ lastRot.shiftFailed) =>
        /\ \A k \in 1 .. MaxIndex :
              (lastRot.start[k].exists /\ k # lastRot.failedAt) =>
                 ~(/\ lastRot.end[k].exists
                   /\ lastRot.end[k].content = lastRot.start[k].content)
        /\ lastRot.renamed
        /\ rotation.maxDays > 0 => lastRot.pruned

\* C10, as claimed: after a completed rotation generation 1 exists and
\* holds the most recently rotated content, and a lower index was rotated
\* strictly later than a higher one.
C10_NewestIsFirst ==
    (lastRot.state = "done" /\ lastRot.renamed) =>
        /\ dir[1].exists
        /\ dir[1].stamp = rotations
        /\ \A k \in Generations, j \in Generations :
              k < j => dir[k].stamp > dir[j].stamp

\* C10, amended: a lower index was rotated strictly later than a higher
\* one, and generation 1, whenever it exists, holds the most recently
\* rotated content (age pruning can remove it right after the rotation).
C10_GenerationOrder ==
    /\ \A k \in Generations, j \in Generations :
          k < j => dir[k].stamp > dir[j].stamp
    /\ \A k \in Generations : dir[k].stamp \in 1 .. rotations
    /\ dir[1].exists => dir[1].stamp = rotations

\* C10 witness: three rotations have left generations behind generation 1.
C10_Witness ==
    /\ rotations >= 3
    /\ lastRot.state = "done"
    /\ dir[1].exists
    /\ Cardinality(Generations) >= 2

C12_AgePruning ==
    /\ [][\A t \in Running :
             (LeavesRotate(t) /\ rotation.maxDays > 0 /\ lastRot'.renamed) =>
                /\ \A k \in 1 .. MaxIndex :
                      ~(/\ dir'[k].exists
                        /\ now - dir'[k].mtime > rotation.maxDays)
                /\ \A k \in 1 .. MaxIndex :
                      (/\ lastRot.start[k].exists
                       /\ ~(now - lastRot.start[k].mtime > rotation.maxDays)
                       /\ k + 1 <= rotation.maxFiles) =>
                         \E j \in 1 .. MaxIndex :
                            /\ dir'[j].exists
                            /\ dir'[j].content = lastRot.start[k].content]_vars
    /\ [](rotation.maxDays = 0 => ~lastRot.pruned)

\* C13: however many initialize() calls are made, explicit or implicit,
\* overlapping or not, the directory is created once and one flush timer is
\* started (none without buffering), as for a single call.
C13_InitializeOnce ==
    /\ created <= 1
    /\ timers <= 1
    /\ initialized =>
          (created = 1 /\ timers = IF buffering THEN 1 ELSE 0)
    /\ ~initialized => (created = 0 /\ timers = 0)

\* C13 witness: the transport is initialized while an initialize() call
\* that overlapped the first one is still awaiting mkdir.
C13_Witness ==
    /\ initialized
    /\ \E t \in Running : pc[t] = "mkdir" /\ local[t].call = "initialize"

\* C14: a call whose mkdir failed with EEXIST succeeds and the transport is
\* initialized; a call whose mkdir failed with another error is rejected,
\* and it leaves the transport uninitialized and without a timer.
C14_InitFailure ==
    /\ \A t \in Running : local[t].err = "EEXIST" => initialized
    /\ settled.err = "EEXIST" =>
          (settled.result = "resolved" /\ initialized)
    /\ settled.err = "EACCES" =>
          /\ settled.result = "rejected"
          /\ ~initialized
          /\ ~flushIntervalId
          /\ timers = 0

\* C14 witness: an initialize() call has been rejected by a failed mkdir.
C14_Witness ==
    /\ settled.call = "initialize"
    /\ settled.err = "EACCES"
    /\ settled.result = "rejected"

\* C15: isLevelEnabled(L) holds iff L is at least as severe as the
\* transport's minimum level, and only entries at such levels are written.
C15_LevelGating ==
    /\ \A lv \in LogLevel :
          isLevelEnabled(lv) <=> Severity(lv) >= Severity(level)
    /\ \A t \in Running :
          (local[t].call = "transport" /\ local[t].entries # << >>) =>
             Severity(local[t].level) >= Severity(level)

\* C15 witness: a transport whose minimum level is WARN has dropped an INFO
\* entry, and accepted nothing.
C15_Witness ==
    /\ level = "warn"
    /\ settled.call = "transport"
    /\ settled.level = "info"
    /\ settled.result = "resolved"
    /\ nextId = 1

\* C16: a transport(entry) call below the transport's level resolves, and
\* none of its steps changes the buffer or a file or starts a rotation.
C16_DisabledDropped ==
    [][/\ (/\ settled' # settled
           /\ settled'.call = "transport"
           /\ ~isLevelEnabled(settled'.level)) =>
             /\ settled'.result = "resolved"
             /\ buffer' = buffer
             /\ dir' = dir
             /\ rotating' = rotating
             /\ nextId' = nextId
       /\ \A t \in Running :
             (/\ pc'[t] # pc[t]
              /\ local'[t].call = "transport"
              /\ ~isLevelEnabled(local'[t].level)) =>
                /\ buffer' = buffer
                /\ dir' = dir
                /\ rotating' = rotating
                /\ nextId' = nextId]_vars

\* C17: a transport() call that makes the buffer reach bufferSize returns
\* only when the write of the whole buffer has completed, so the buffer
\* stays below bufferSize; without buffering every accepted entry is written
\* before the call returns. Every accepted entry is thus written, waiting
\* in the buffer below the threshold, or held by a call still in flight.
C17_ThresholdFlush ==
    /\ [](/\ buffering => Len(buffer) < bufferSize
          /\ ~buffering => buffer = << >>
          /\ \A e \in 1 .. (nextId - 1) :
                \/ e \in completed
                \/ e \in Range(buffer)
                \/ \E t \in Running :
                      pc[t] # "idle" /\ e \in Range(local[t].entries))
    /\ [][\A t \in Running :
             (pc[t] = "append" /\ pc'[t] = "idle") =>
                Range(local[t].entries) \subseteq completed']_vars

\* C17 witness: with bufferSize = 2 the second transport() has returned
\* after the write of both entries.
C17_Witness ==
    /\ buffering
    /\ bufferSize = 2
    /\ settled.call = "transport"
    /\ settled.result = "resolved"
    /\ {1, 2} \subseteq completed
    /\ buffer = << >>

\* C18: while a close() is the call that returned last, no periodic flush
\* timer is set.
C18_CloseCancelsTimer ==
    settled.call = "close" => ~flushIntervalId

C20_FacadeFilter ==
    /\ settled.call = "log" =>
          (settled.entry <=> Severity(settled.level) >= Severity(minLevel))
    /\ (settled.call = "transport" /\ settled.log = "resolved") =>
          Severity(settled.level) >= Severity(minLevel)
    /\ \A t \in Running :
          (pc[t] # "idle" /\ local[t].log = "resolved") =>
             Severity(local[t].level) >= Severity(minLevel)

\* C20 witness: a logger with minimum level WARN has returned from an INFO
\* call without creating an entry.
C20_Witness ==
    /\ minLevel = "warn"
    /\ settled.call = "log"
    /\ settled.level = "info"
    /\ ~settled.entry

\* C21: for every level M, the logger that createLogger({ minLevel: M })
\* returns has minimum level M in every environment: its log() creates an
\* entry iff the level is at least as severe as M.
C21_FactoryMinLevel ==
    \A i \in 1 .. Len(loggers) :
        (/\ loggers[i].made.by = "createLogger"
         /\ loggers[i].made.arg.minLevel # "undefined") =>
            (logged.logger = i =>
                (logged.entry # undefined <=>
                    Severity(logged.level) >=
                       Severity(loggers[i].made.arg.minLevel)))

\* The entries of level lv, with message m, among the lines of a stream.
Written(stream, lv, m) ==
    {k \in 1 .. Len(stream) :
        stream[k][2] = formatLevel(lv, TRUE) /\ stream[k][3] = m}

\* C22: a console transport writes an accepted entry to the error stream
\* iff useErrorConsole is set and the level is ERROR, and to the standard
\* output otherwise; an accepted entry is in one of the two streams once, or
\* not yet written and held once, with buffering as without.
C22_ConsoleStream ==
    /\ \A k \in 1 .. Len(stderr) :
          useErrorConsole /\ stderr[k][2] = formatLevel("error", TRUE)
    /\ \A k \in 1 .. Len(stdout) :
          ~(useErrorConsole /\ stdout[k][2] = formatLevel("error", TRUE))
    /\ \A m \in 1 .. (nextId - 1) :
          Cardinality({k \in 1 .. Len(buffer) : buffer[k].message = m})
          + Cardinality({<< t, k >> \in Slots \X (1 .. MaxEntries + 1) :
                            /\ pc[t] = "writeMany"
                            /\ k <= Len(local[t].entries)
                            /\ local[t].entries[k].message = m})
          + Cardinality({k \in 1 .. Len(stdout) : stdout[k][3] = m})
          + Cardinality({k \in 1 .. Len(stderr) : stderr[k][3] = m}) = 1
    /\ (buffer = << >> /\ \A t \in Slots : pc[t] = "idle") =>
          \A m \in 1 .. (nextId - 1) :
             \E lv \in limits.levels :
                Cardinality(Written(stdout, lv, m))
                + Cardinality(Written(stderr, lv, m)) = 1

\* C22 witness: a buffering transport with useErrorConsole set has written
\* a batch of two entries, the ERROR entry to the error stream and the
\* other to the standard output.
C22_Witness ==
    /\ buffering
    /\ bufferSize = 2
    /\ useErrorConsole
    /\ Written(stderr, "error", 1) # {}
    /\ Written(stdout, "info", 2) # {}
    /\ \A t \in Slots : pc[t] = "idle"

\* The entries that the latest log() call created or handed to a transport.
Emitted ==
    ((IF logged.entry = undefined THEN {} ELSE {logged.entry})
     \cup {transports[k].received : k \in 1 .. Len(transports)})
    \ {undefined}

\* C23: a logger made by withNamespace(n) has the namespace n under a
\* parent without namespace and "<parent's namespace>:n" under a parent
\* with one, also when it is handed out again later; a logger made by
\* withContext has its parent's namespace; every entry carries the namespace
\* of the logger that emitted it.
C23_Namespaces ==
    /\ \A j \in 1 .. Len(loggers) :
          LET how == loggers[j].made
          IN  /\ how.by = "withNamespace" =>
                    /\ loggers[j].namespace =
                          IF loggers[how.from].namespace = undefined
                          THEN how.arg
                          ELSE String(loggers[how.from].namespace.chars
                                      \o << ":" >> \o how.arg.chars)
                    /\ get(loggers[how.from].childLoggers,
                           loggers[j].namespace) = j
              /\ how.by = "withContext" =>
                    loggers[j].namespace = loggers[how.from].namespace
    /\ \A e \in Emitted : e.namespace = loggers[logged.logger].namespace

\* C23 witness: a transport has received an entry with namespace "a:b" from
\* a logger made by withNamespace("b") on the logger of namespace "a".
C23_Witness ==
    /\ logged.logger \in 1 .. Len(loggers)
    /\ loggers[logged.logger].made.by = "withNamespace"
    /\ loggers[logged.logger].made.arg = String(<< "b" >>)
    /\ \E k \in 1 .. Len(transports) :
          /\ transports[k].received # undefined
          /\ transports[k].received.namespace = String(<< "a", ":", "b" >>)

\* The contexts a logger descends from, oldest first: the defaultContext of
\* its constructor's configuration, then the argument of each withContext.
RECURSIVE Ancestry(_)
Ancestry(j) ==
    LET how == loggers[j].made
    IN  IF how.from = 0 THEN << own(how.arg.defaultContext) >>
        ELSE IF how.by = "withContext"
        THEN Append(Ancestry(how.from), own(how.arg))
        ELSE Ancestry(how.from)

\* C24: the default context of a logger made by withContext(c) has the keys
\* of its parent's and of c, with c's value on a key of c and the parent's
\* value elsewhere, so that a chain of withContext calls gives each key the
\* value of its youngest ancestor; every entry carries the default context
\* of its logger; no step changes the default context of an existing
\* logger.
C24_ContextInheritance ==
    /\ [](/\ \A j \in 1 .. Len(loggers) :
                LET how == loggers[j].made
                    mine == loggers[j].defaultContext.props
                IN  /\ how.by = "withContext" =>
                          LET parent ==
                                 loggers[how.from].defaultContext.props
                          IN  /\ keys(mine) =
                                    keys(parent) \cup keys(how.arg.props)
                              /\ \A key \in keys(mine) :
                                    get(mine, key) =
                                       IF has(how.arg.props, key)
                                       THEN get(how.arg.props, key)
                                       ELSE get(parent, key)
                    /\ keys(mine) =
                          UNION {keys(Ancestry(j)[k]) :
                                    k \in 1 .. Len(Ancestry(j))}
                    /\ \A key \in keys(mine) :
                          LET chain == Ancestry(j)
                              holders ==
                                 {k \in 1 .. Len(chain) : has(chain[k], key)}
                              youngest ==
                                 CHOOSE k \in holders :
                                    \A h \in holders : h <= k
                          IN  /\ holders # {}
                              /\ get(mine, key) = get(chain[youngest], key)
          /\ \A e \in Emitted :
                /\ e.context.type = "object"
                /\ keys(e.context.props) =
                      keys(loggers[logged.logger].defaultContext.props)
                /\ \A key \in keys(e.context.props) :
                      get(e.context.props, key) =
                         get(loggers[logged.logger].defaultContext.props,
                             key))
    /\ [][\A i \in 1 .. Len(loggers) :
             loggers'[i].defaultContext = loggers[i].defaultContext]_vars

\* C24 witness: under a logger with { k: "0" }, withContext({ j: "1" }) and
\* then withContext({ k: "1" }) gave a logger whose entry, received by a
\* transport, has k = "1" and j = "1".
C24_Witness ==
    /\ logged.logger \in 1 .. Len(loggers)
    /\ Len(Ancestry(logged.logger)) = 3
    /\ has(Ancestry(logged.logger)[1], "k")
    /\ \E k \in 1 .. Len(transports) :
          /\ transports[k].received # undefined
          /\ get(transports[k].received.context.props, "k")
                = String(<< "1" >>)
          /\ get(transports[k].received.context.props, "j")
                = String(<< "1" >>)

\* What the transforms of a list put before a message: the prefix of the
\* last transform comes first.
RECURSIVE Prefixes(_)
Prefixes(names) ==
    IF names = << >> THEN << >>
    ELSE Prefixes(Tail(names)) \o << Head(names), ":" >>

\* C25: log() hands to every transport whose level is enabled one and the
\* same entry, the created entry after all the logger's transforms, applied
\* in list order and each to the result of the one before; no transport is
\* handed anything else.
C25_TransformPipeline ==
    logged.logger # 0 =>
        LET final ==
               [logged.entry EXCEPT !.message =
                   Prefixes(loggers[logged.logger].transforms)
                   \o logged.message]
        IN  \A k \in 1 .. Len(transports) :
               transports[k].received =
                  IF /\ logged.entry # undefined
                     /\ Severity(logged.level)
                           >= Severity(transports[k].level)
                  THEN final
                  ELSE undefined

\* C25 witness: a logger with the transforms A, B has logged an ERROR entry,
\* and both transports have received the message with B's prefix before
\* A's.
C25_Witness ==
    /\ logged.logger # 0
    /\ loggers[logged.logger].transforms = << "A", "B" >>
    /\ Len(transports) = 2
    /\ \A k \in 1 .. Len(transports) :
          /\ transports[k].received # undefined
          /\ transports[k].received.message
                = << "B", ":", "A", ":", "m" >>

\* C26: parsing the output of JsonFormatter.format(entry) for a well-formed
\* entry yields an object whose timestamp is the entry's in ISO-8601 text,
\* whose level and message are the entry's, which has the key context iff
\* the entry's context is non-empty and the key meta iff its metadata is
\* non-empty.
C26_JsonRoundTrip ==
    (formatted # << >> /\ ~throws(entry.context) /\ ~throws(entry.meta)) =>
        LET parsed == JSON_parse(formatted).props
            NonEmpty(value) ==
               value.type = "object" /\ Cardinality(keys(value.props)) > 0
        IN  /\ get(parsed, "timestamp") = toISOString(entry.timestamp)
            /\ get(parsed, "level") = String(<< entry.level >>)
            /\ get(parsed, "message") = String(entry.message)
            /\ has(parsed, "context") <=> NonEmpty(entry.context)
            /\ has(parsed, "meta") <=> NonEmpty(entry.meta)

\* C27: the `rotating` flag is set only while a call is inside rotate();
\* every step in which a call leaves rotate() (after success, after a failed
\* filesystem call, or because the active file is missing) leaves the flag
\* false, so the flag is false whenever no call is in flight, and a
\* checkRotation() that then finds the file full enters rotate() again.
C27_RotatingReset ==
    /\ [](rotating => Rotators # {})
    /\ []((\A t \in Slots : pc[t] = "idle") => ~rotating)
    /\ [][\A t \in Slots :
             /\ LeavesRotate(t) => ~rotating'
             /\ (/\ pc[t] = "cr_then"
                 /\ pc'[t] # "cr_then"
                 /\ needsRotation(local[t].stats)
                 /\ Rotators = {}) => pc'[t] = "rot_stat"]_vars

\* C27 witness: after a rotate() that reported a failure, a later rotate()
\* has renamed the active file and returned, and no call is in flight.
C27_Witness ==
    /\ "rotate" \in diag
    /\ lastRot.state = "done"
    /\ lastRot.renamed
    /\ ~lastRot.failed
    /\ ~rotating
    /\ \A t \in Slots : pc[t] = "idle"

\* C28: a rotate() whose second stat finds no active file returns at once:
\* that step renames and deletes nothing, every generation keeps its index
\* and content, and the call goes on to appendFile with its pending
\* entries; its append then leaves the generations alone and puts the
\* entries at the end of the active file, which it creates when missing.
C28_CleanAbort ==
    [][\A t \in Slots :
          /\ (/\ pc[t] = "rot_then"
              /\ ~local[t].stats.exists
              /\ pc'[t] # "rot_then") =>
                 /\ dir' = dir
                 /\ rotations' = rotations
                 /\ pc'[t] = "append"
                 /\ local'[t].entries = local[t].entries
          /\ (/\ pc[t] = "append"
              /\ ~local[t].stats.exists
              /\ lastRot.state = "aborted"
              /\ pc'[t] # "append") =>
                 /\ \A k \in 1 .. MaxIndex : dir'[k] = dir[k]
                 /\ dir'[0].exists
                 /\ dir'[0].content =
                       (IF dir[0].exists THEN dir[0].content ELSE << >>)
                          \o local[t].entries]_vars

\* C28 witness: the latest rotate() found the active file gone, renamed
\* away by the rotation of another call, and aborted; every call has
\* returned, and the entries are in the generation and in a new active
\* file.
C28_Witness ==
    /\ lastRot.state = "aborted"
    /\ \A t \in Slots : pc[t] = "idle"
    /\ dir[0].exists
    /\ dir[1].exists
    /\ rotations >= 1

\* The entries that the write of slot t has taken.
Batch(t) == local[t].entries

\* C29: a flush hands the whole buffer, in its order, to one writeMany(),
\* which goes once through checkRotation() and then makes one appendFile
\* whose data adds the entries of the batch as lines, in buffer order, to
\* the active file; the active file grows in no other step, and a flush of
\* an empty buffer returns at once without a filesystem call.
C29_BatchAppend ==
    [][/\ \A t \in Slots :
             /\ (buffering /\ Batch(t) = << >> /\ Batch(t)' # << >>) =>
                   /\ Batch(t)' = IF nextId' = nextId THEN buffer
                                  ELSE Append(buffer, nextId)
                   /\ buffer' = << >>
                   /\ pc'[t] = IF rotating THEN "append" ELSE "cr_stat"
             /\ (Batch(t) # << >> /\ pc'[t] # "idle") =>
                   /\ Batch(t)' = Batch(t)
                   /\ pc'[t] = "cr_stat" => pc[t] = "cr_stat"
             /\ (pc[t] = "append" /\ pc'[t] # "append") =>
                   /\ pc'[t] = "idle"
                   /\ \A k \in 1 .. MaxIndex : dir'[k] = dir[k]
                   /\ faults' = faults =>
                         /\ dir'[0].exists
                         /\ dir'[0].content = dir[0].content \o Batch(t)
                   /\ faults' # faults => dir' = dir
       /\ (dir'[0].exists /\ dir'[0].content # dir[0].content) =>
             \E t \in Slots : pc[t] = "append" /\ pc'[t] = "idle"
       /\ (/\ buffer = << >>
           /\ settled' # settled
           /\ settled'.call \in {"timer", "close"}
           /\ \A t \in Slots : pc[t] = "idle") =>
             /\ pc' = pc
             /\ dir' = dir
             /\ faults' = faults]_vars

\* C29 witness: with bufferSize 2, the transport() call that accepted the
\* second entry has flushed the two buffered entries and returned, and the
\* two are the lines of the active file, in buffer order.
C29_Witness ==
    /\ buffering
    /\ bufferSize = 2
    /\ nextId = 3
    /\ settled.call = "transport"
    /\ settled.result = "resolved"
    /\ completed = {1, 2}
    /\ dir[0].content = << 1, 2 >>

\* C30: when the appendFile of a write fails, the call returns without
\* another attempt, and its entries are then neither in the buffer nor in
\* any file.  An entry whose write has completed, failed or not, is never
\* in the buffer or in the batch of a call again, and no step adds an
\* occurrence of it to a file; an append that succeeds, also after a
\* failure, adds its batch to the active file.
C30_NoRetry ==
    /\ [](\A e \in completed :
             /\ e \notin Range(buffer)
             /\ \A t \in Slots : e \notin Range(Batch(t)))
    /\ [][/\ \A t \in Slots :
                (pc[t] = "append" /\ pc'[t] # "append") =>
                   /\ pc'[t] = "idle"
                   /\ Range(Batch(t)) \subseteq completed'
                   /\ faults' # faults =>
                         /\ dir' = dir
                         /\ \A e \in Range(Batch(t)) :
                               /\ Count(e, Log') = 0
                               /\ e \notin Range(buffer')
                   /\ faults' = faults =>
                         dir'[0].content = dir[0].content \o Batch(t)
          /\ \A e \in completed : Count(e, Log') <= Count(e, Log)]_vars

\* C30 witness: the append of entry 1 has failed, no file has been rotated,
\* and entry 1 is in no file and not in the buffer while a later entry is
\* in the active file.
C30_Witness ==
    /\ "write" \in diag
    /\ rotations = 0
    /\ 1 \in completed
    /\ Count(1, Log) = 0
    /\ 1 \notin Range(buffer)
    /\ \E e \in 2 .. (nextId - 1) : Count(e, dir[0].content) = 1
    /\ \A t \in Slots : pc[t] = "idle"

\* Number of places that hold entry e: the buffer, the batch of a call in
\* flight, and the writes that have completed.
RECURSIVE InBatches(_, _)
InBatches(e, t) ==
    IF t = 0 THEN 0 ELSE Count(e, Batch(t)) + InBatches(e, t - 1)


\* C31: every accepted entry is in exactly one place, the buffer, the batch
\* of one flush or write in flight, or the completed writes, and at most
\* once there; the batch of a write whose append completes holds no entry
\* that was written before, and no entry occurs twice in the files.
C31_NoDuplication ==
    /\ [](\A e \in 1 .. (nextId - 1) :
             /\ Count(e, buffer) + InBatches(e, MaxSlots)
                   + (IF e \in completed THEN 1 ELSE 0) = 1
             /\ Count(e, Log) <= 1)
    /\ [][\A t \in Slots :
             (pc[t] = "append" /\ pc'[t] # "append") =>
                Range(Batch(t)) \cap completed = {}]_vars

\* C31 witness: a timer flush or close() holds an entry in its batch while a
\* transport() call holds another one, and a third entry is written.
C31_Witness ==
    \E t \in Slots, u \in Slots :
        /\ t # u
        /\ local[t].call \in {"timer", "close"}
        /\ Batch(t) # << >>
        /\ local[u].call = "transport"
        /\ Batch(u) # << >>
        /\ completed # {}

\* C32: whenever rotate() renames the active file to index 1, the size of
\* the active file at that moment is at least maxSize.
C32_RotatesFullFile ==
    [][rotations' # rotations => Size(dir[0]) >= rotation.maxSize]_vars

\* C33: with buffering, the buffer holds fewer than bufferSize entries in
\* every state in which a call is suspended or no call is in flight: a
\* transport() call that brings the buffer to bufferSize empties it into its
\* batch before it suspends, and any other accepting call adds one entry.
C33_BufferBound ==
    /\ [](buffering => Len(buffer) < bufferSize)
    /\ [][(buffering /\ nextId' # nextId) =>
             IF Len(buffer) + 1 >= bufferSize
             THEN /\ buffer' = << >>
                  /\ \E t \in Slots : Batch(t)' = Append(buffer, nextId)
             ELSE buffer' = Append(buffer, nextId)]_vars

\* C33 witness: with bufferSize 2, one entry waits in the buffer while the
\* transport() call that reached the threshold is writing its batch of two.
C33_Witness ==
    /\ buffering
    /\ bufferSize = 2
    /\ Len(buffer) = 1
    /\ \E t \in Slots :
          /\ local[t].call = "transport"
          /\ Len(Batch(t)) = 2
          /\ pc[t] = "append"

\* C34: setInterval is called at most once on a transport, so at most one
\* periodic flush timer is active: a timer is set only with buffering and
\* only as that one timer, and without buffering none is ever started.
C34_SingleTimer ==
    /\ timers <= 1
    /\ flushIntervalId => (buffering /\ timers = 1)
    /\ ~buffering => (timers = 0 /\ ~flushIntervalId)

\* C34 witness: the timer is set while a transport() call that found the
\* transport uninitialized is still awaiting mkdir, and BaseTransport's
\* initialize() will run again for it.
C34_Witness ==
    /\ flushIntervalId
    /\ timers = 1
    /\ \E t \in Running : pc[t] = "mkdir" /\ local[t].call = "transport"

\* C35: with buffering, an entry that waits in the buffer is eventually
\* taken out of it and handed to writeMany(), when timer callbacks run and
\* suspended calls resume, whatever further calls the application makes or
\* does not make.
C35_EventuallyFlushed ==
    \A e \in 1 .. MaxEntries :
        (buffering /\ e \in Range(buffer)) ~> (e \notin Range(buffer))

\* C36: no step of rotate() or of the age pruning changes a file of the
\* directory other than the active file and the files whose whole name is
\* baseName.<digits>extension: every other file keeps its name and content.
C36_OwnFilesOnly ==
    [][\A name \in FileNames :
          LET n == Len(name) - Len(basename) - 1 - Len(extension)
              IsRotatedName ==
                 /\ n >= 1
                 /\ SubSeq(name, 1, Len(basename)) = basename
                 /\ name[Len(basename) + 1] = "."
                 /\ \A k \in 1 .. n : name[Len(basename) + 1 + k] \in Digit
                 /\ SubSeq(name, Len(basename) + 2 + n, Len(name))
                       = extension
          IN  ~(name = filename \/ IsRotatedName) =>
                 folder'[name] = folder[name]]_vars

\* C37: a write that is in checkRotation() or rotate() keeps its batch and
\* does not return from there, whatever filesystem call fails: it goes on
\* to appendFile, and its append, when it succeeds, adds the batch to the
\* active file.  A rotate() that met a failure leaves the flag false, and
\* the next checkRotation() that finds the file full enters rotate() again.
C37_FailedRotationNoBlock ==
    [][\A t \in Slots :
          /\ (pc[t] \in {"cr_stat", "cr_then"} \/ InRotate(t)) =>
                /\ pc'[t] # "idle"
                /\ Batch(t) # << >>
                /\ Batch(t)' = Batch(t)
          /\ (LeavesRotate(t) /\ lastRot'.failed) => ~rotating'
          /\ (pc[t] = "append" /\ pc'[t] = "idle" /\ faults' = faults) =>
                /\ dir'[0].exists
                /\ dir'[0].content = dir[0].content \o Batch(t)
          /\ (/\ pc[t] = "cr_then"
              /\ pc'[t] # "cr_then"
              /\ needsRotation(local[t].stats)
              /\ lastRot.failed
              /\ Rotators = {}) => pc'[t] = "rot_stat"]_vars

\* C37 witness: the rename or unlink of a rotation has failed, the rotation
\* has ended, and the write that triggered it has returned with its entry
\* as the last line of the active file, which was not rotated.
C37_Witness ==
    /\ lastRot.state = "done"
    /\ lastRot.failed
    /\ ~lastRot.renamed
    /\ "rotate" \in diag
    /\ settled.call = "transport"
    /\ settled.result = "resolved"
    /\ ~settled.appendFailed
    /\ dir[0].exists
    /\ Len(dir[0].content) >= 2
    /\ dir[0].content[Len(dir[0].content)] = nextId - 1

\* C38: two getLogger() calls on one logger with the same namespace and no
\* close() of that logger between them return the same child logger, and
\* calls with different namespaces return different ones; a child logger
\* holds the transports of the logger it was asked of, and what it logs
\* reaches exactly those of them whose level is enabled.
C38_ChildRegistry ==
    /\ \A g \in returned.held, h \in returned.held :
          g[1] = h[1] => (g[2] = h[2] <=> g[3] = h[3])
    /\ \A h \in returned.held :
          /\ h[3] \in 1 .. Len(loggers)
          /\ h[3] # h[1]
          /\ loggers[h[3]].namespace = h[2]
    /\ \A j \in 1 .. Len(loggers) :
          LET how == loggers[j].made
          IN  how.by = "getLogger" =>
                 /\ loggers[j].transports = loggers[how.from].transports
                 /\ (logged.logger = j /\ logged.entry # undefined) =>
                       \A k \in 1 .. Len(transports) :
                          transports[k].received # undefined
                             <=> /\ holds(loggers[how.from], k)
                                 /\ LogTransport_isLevelEnabled(
                                       transports[k], logged.level)

\* C38 witness: the logger has returned one child for "a" and another for
\* "b", and now the first again for "a"; the child for "b" has logged a
\* DEBUG entry, which the first transport alone has received.
C38_Witness ==
    /\ returned.call = "getLogger" /\ returned.logger = 1
    /\ returned.namespace = String(<< "a" >>) /\ returned.result = 2
    /\ << 1, String(<< "b" >>), 3 >> \in returned.held
    /\ logged.logger = 3 /\ logged.level = "debug"
    /\ transports[1].received # undefined
    /\ transports[2].received = undefined
====
